---- MODULE Spec2Model ----
(***************************************************************************)
(* Duplicate Destroyer: the duplicate-discovery engine.                    *)
(*                                                                         *)
(* A run is get_duplicates(directories, options) of lib.rs: the input      *)
(* roots are walked into the DirTree and their files registered in the     *)
(* DuplicateTable (add_directories), the table is finalised, every node    *)
(* gets its duplicate set (find_duplicates, two passes), the topmost       *)
(* duplicate groups are extracted (recursively_get_duplicates) and the     *)
(* list is sorted by size.                                                 *)
(***************************************************************************)
EXTENDS Integers, Sequences, FiniteSets, TLC

VARIABLES
    fs,             \* the filesystem that is scanned: the templates of the top-level entries of T
    roots,          \* `directories`: the input paths, in the order given
    min_size,       \* options["min_size"]
    pc,             \* position of the driver in get_duplicates
    added,          \* number of input roots add_directories has walked
    dir_tree,       \* DirTree.dir_tree: node id -> node (type, parent, children, path, size, part_checksum)
    table,          \* DuplicateTable.table: partial checksum -> DTEntry
    node_duplicates,\* NodeType::{File,Dir}.duplicates of every node
    node_size,      \* NodeType::Dir.size of every node (files: their length)
    is_contained,   \* NodeType::*.is_contained of every node
    order,          \* the post-order traversal find_duplicates iterates over
    idx,            \* number of nodes of `order` the current pass has processed
    stack,          \* nodes recursively_get_duplicates has still to visit, next first
    duplicates,     \* `duplicates: Vec<DuplicateObject>` of DirTree::get_duplicates, then of lib::get_duplicates
    prompt,         \* Actions::get_from_input: the group shown, the attempts made and the action built
    pool            \* a DuplicateTable with worker threads: its table, thread pool, channel and counters

vars == <<fs, roots, min_size, pc, added, dir_tree, table, node_duplicates,
          node_size, is_contained, order, idx, stack, duplicates, prompt, pool>>

\* the variables of lib::get_duplicates
engine_vars == <<fs, roots, min_size, pc, added, dir_tree, table, node_duplicates,
                 node_size, is_contained, order, idx, stack, duplicates>>

(***************************************************************************)
(* Bounds and program constants                                            *)
(***************************************************************************)
\* at most this many entries directly below the scanned directory T
MaxTops == 3
\* at most this many filesystem objects below T
MaxObjs == 16

CHCKSUM_LENGTH == 1024
DIR_SIZE == 4096
\* Option::None of a Dir's size
None == -1
\* DirTree.root_id, the synthetic ROOT_NODE
root_id == 0

(***************************************************************************)
(* The filesystem.  T is a directory; each of its entries is an instance   *)
(* of a template.  A template is a sequence of objects, the first being    *)
(* the entry itself (par = 0) and every other one lying below an earlier   *)
(* one.  A file's content is (head, tail): head identifies its first       *)
(* CHCKSUM_LENGTH bytes, tail the rest; head = 0 stands for a content no   *)
(* other file has.                                                         *)
(***************************************************************************)
D(par) == [par |-> par, kind |-> "Dir", head |-> 0, tail |-> 0, len |-> 0]
F(par, head, tail, len) == [par |-> par, kind |-> "File", head |-> head, tail |-> tail, len |-> len]
L(par) == [par |-> par, kind |-> "Symlink", head |-> 0, tail |-> 0, len |-> 0]
X(par) == [par |-> par, kind |-> "NoAccess", head |-> 0, tail |-> 0, len |-> 0]
\* a directory entry whose DirEntry the directory iterator yields as an Err
U(par) == [par |-> par, kind |-> "Unreachable", head |-> 0, tail |-> 0, len |-> 0]

\* a.txt = "test_text_a\n", alpha.txt = "test_text_alpha\n", beta.txt = "test_text_beta\n"
FA(par) == F(par, 1, 0, 12)
FAlpha(par) == F(par, 2, 0, 16)
FBeta(par) == F(par, 3, 0, 15)
\* a file whose content no other file has
FDiff(par) == F(par, 0, 0, 12)
\* two files longer than CHCKSUM_LENGTH that agree on their first CHCKSUM_LENGTH bytes only
FBig1(par) == F(par, 4, 1, 2000)
FBig2(par) == F(par, 4, 2, 2000)

Templates == <<
    << D(0), FA(1) >>,                                          \* 1: Y/{a}
    << D(0), D(1), FA(2), FA(2) >>,                             \* 2: P/x/{a, a'}
    << D(0), D(1), FA(2) >>,                                    \* 3: Q/y/{a}
    << D(0), FA(1), D(1), FAlpha(3), FBeta(3) >>,               \* 4: A/{a, b/{alpha, beta}}
    << D(0), FA(1), D(1), FAlpha(3), FBeta(3), FDiff(1) >>,     \* 5: C/{a, b/{alpha, beta}, diff}
    << D(0), FA(1), FDiff(1), L(1) >>,                          \* 6: A/{a, diff, link}
    << D(0), FA(1), FA(1) >>,                                   \* 7: X/{a, a'}
    << D(0), FA(1), FAlpha(1) >>,                               \* 8: X/{a, alpha}
    << D(0), FA(1), X(1), L(1) >>,                              \* 9: A/{a, unreadable, link}
    << D(0), FA(1), D(1), FAlpha(3), FBeta(3), D(1), FAlpha(6) >>, \* 10: E/{a, b/{alpha, beta}, e/{alpha}}
    << D(0), FBig1(1), FBig2(1), FBig1(1) >>,                   \* 11: G/{big1, big2, big1'}
    << FA(0) >>,                                                \* 12: a plain file a
    << D(0), D(1), FA(2), L(1) >>,                              \* 13: W/{Y/{a}, link}
    << D(0), D(1), D(2), FA(3) >>,                              \* 14: R/s/t/{a}
    << D(0), FA(1), D(1), FA(3) >>,                             \* 15: V/{a, Y/{a}}
    \* the objects below an unreadable directory are its entries, the objects
    \* below a symlink the entries of the directory it points to
    << D(0), FA(1), X(1), FA(3), L(1), FA(5) >>,                \* 16: B/{a, locked/{a}, link -> {a}}
    << D(0), FA(1), U(1) >>,                                    \* 17: B/{a, an entry that cannot be reached}
    << D(0), FA(1), D(1) >>,                                    \* 18: K/{a, e/} with e empty
    << D(0), D(1), FA(2), D(2) >>                               \* 19: M/k/{a, e/} with e empty
>>

NumTemplates == Len(Templates)

RECURSIVE MaxLenOf(_, _)
MaxLenOf(ts, i) ==
    IF i > Len(ts) THEN 0
    ELSE LET m == MaxLenOf(ts, i + 1) IN IF Len(ts[i]) > m THEN Len(ts[i]) ELSE m

TStride == MaxLenOf(Templates, 1) + 1

\* filesystem objects are numbers: T is 0, object j of the i-th entry of T is i * TStride + j
T == 0
Obj(i, j) == i * TStride + j
ObjTop(o) == o \div TStride
ObjIdx(o) == o % TStride

FsObjs(sc) ==
    {T} \cup UNION {{Obj(i, j) : j \in 1..Len(Templates[sc[i]])} : i \in 1..Len(sc)}

FsEntry(sc, o) == IF o = T THEN D(0) ELSE Templates[sc[ObjTop(o)]][ObjIdx(o)]
FsKind(sc, o) == FsEntry(sc, o).kind
FsParent(sc, o) ==
    IF FsEntry(sc, o).par = 0 THEN T ELSE Obj(ObjTop(o), FsEntry(sc, o).par)

RECURSIVE FsAncOrSelf(_, _)
FsAncOrSelf(sc, o) == IF o = T THEN {T} ELSE {o} \cup FsAncOrSelf(sc, FsParent(sc, o))

\* the numbers of a set, ascending
RECURSIVE Ascending(_)
Ascending(S) ==
    IF S = {} THEN <<>>
    ELSE LET m == CHOOSE x \in S : \A y \in S : x <= y IN <<m>> \o Ascending(S \ {m})

\* the entries of directory o in directory-iteration order
FsChildren(sc, o) ==
    Ascending({c \in FsObjs(sc) \ {T} : FsParent(sc, c) = o})

\* digests are injective on the bytes they are computed from (collision assumption)
FsHead(sc, o) == IF FsEntry(sc, o).head = 0 THEN 0 - o ELSE FsEntry(sc, o).head
blake2_partial(sc, o) == FsHead(sc, o)
get_checksum(sc, o) == <<FsHead(sc, o), FsEntry(sc, o).tail>>

(***************************************************************************)
(* The DirTree.  A node id is the pair (index of the input root, object).  *)
(***************************************************************************)
NStride == (MaxTops + 2) * TStride
NodeId(ri, o) == ri * NStride + o
NodeRoot(n) == n \div NStride
NodeObj(n) == n % NStride

NodeTypeOf(kind) ==
    CASE kind = "Dir" -> "Dir"
      [] kind = "File" -> "File"
      [] kind = "Symlink" -> "Symlink"
      [] OTHER -> "Inaccessible"

\* create_subtree(r) reaches o: o lies at or below r and read_dir succeeded on
\* every directory from r down to o's parent
Visited(sc, r, o) ==
    /\ r \in FsAncOrSelf(sc, o)
    /\ \A a \in FsAncOrSelf(sc, o) \ {o} : r \in FsAncOrSelf(sc, a) => FsKind(sc, a) = "Dir"

\* the nodes create_subtree inserts for input root number ri
SubtreeNodes(sc, rs, ri) ==
    {NodeId(ri, o) : o \in {x \in FsObjs(sc) : Visited(sc, rs[ri], x)}}

\* file.expect("Could not reach a file.") panics while the first k roots are walked
IngestPanics(sc, rs, k) ==
    \E ri \in 1..k : \E o \in FsObjs(sc) :
        Visited(sc, rs[ri], o) /\ FsKind(sc, o) = "Unreachable"

MapSeq(s, ri) == [k \in 1..Len(s) |-> NodeId(ri, s[k])]

\* the tree after the first k input roots have been walked
TreeOf(sc, rs, k) ==
    LET nodes == UNION {SubtreeNodes(sc, rs, ri) : ri \in 1..k}
    IN  [n \in nodes \cup {root_id} |->
            IF n = root_id
            THEN [type |-> "Dir", parent |-> root_id,
                  children |-> [i \in 1..k |-> NodeId(i, rs[i])],
                  path |-> 0 - 1, part_checksum |-> 0]
            ELSE LET o == NodeObj(n)
                     ri == NodeRoot(n)
                 IN [type |-> NodeTypeOf(FsKind(sc, o)),
                     parent |-> IF o = rs[ri] THEN root_id ELSE NodeId(ri, FsParent(sc, o)),
                     children |-> IF FsKind(sc, o) = "Dir"
                                  THEN MapSeq(FsChildren(sc, o), ri) ELSE <<>>,
                     path |-> o,
                     part_checksum |-> IF FsKind(sc, o) = "File" THEN blake2_partial(sc, o) ELSE 0]]

RECURSIVE PreOrderSeq(_, _)
PreOrderSeq(tr, s) ==
    IF s = <<>> THEN <<>>
    ELSE <<Head(s)>> \o PreOrderSeq(tr, tr[Head(s)].children) \o PreOrderSeq(tr, Tail(s))

RECURSIVE PostOrderSeq(_, _)
PostOrderSeq(tr, s) ==
    IF s = <<>> THEN <<>>
    ELSE PostOrderSeq(tr, tr[Head(s)].children) \o <<Head(s)>> \o PostOrderSeq(tr, Tail(s))

get_root_ids(tr) == tr[root_id].children

RECURSIVE AncestorIds(_, _)
AncestorIds(tr, n) ==
    IF n = root_id THEN <<>> ELSE <<tr[n].parent>> \o AncestorIds(tr, tr[n].parent)

RECURSIVE Descendants(_, _)
Descendants(tr, n) ==
    LET ch == {tr[n].children[i] : i \in 1..Len(tr[n].children)}
    IN  ch \cup UNION {Descendants(tr, c) : c \in ch}

(***************************************************************************)
(* The DuplicateTable (num_threads = 0: full checksums are computed        *)
(* inline).  A TableData is written as its node id, which determines its   *)
(* path.                                                                   *)
(***************************************************************************)
Single(data) == [tag |-> "Single", data |-> data, hashes |-> <<>>]
new_multi_entry == [tag |-> "Multiple", data |-> root_id, hashes |-> <<>>]

\* a variant of add_to_mult_entries that pushes the entry to a list the slot already has
add_to_existing_list(tbl, part_checksum, checksum, entry) ==
    LET me == tbl[part_checksum].hashes
        c0 == IF DOMAIN me = {} THEN checksum ELSE CHOOSE c \in DOMAIN me : TRUE
        v == IF c0 \in DOMAIN me THEN Append(me[c0], entry) ELSE <<entry>>
        hashes == [c \in DOMAIN me \cup {c0} |-> IF c = c0 THEN v ELSE me[c]]
    IN  [tbl EXCEPT ![part_checksum].hashes = hashes]

add_to_mult_entries(tbl, part_checksum, checksum, entry) ==
    LET me == tbl[part_checksum].hashes
        v == IF checksum \in DOMAIN me THEN Append(me[checksum], entry) ELSE <<entry>>
        hashes == [c \in DOMAIN me \cup {checksum} |-> IF c = checksum THEN v ELSE me[c]]
    IN  [tbl EXCEPT ![part_checksum].hashes = hashes]

add_item(sc, tbl, part_checksum, entry) ==
    add_to_mult_entries(tbl, part_checksum, get_checksum(sc, NodeObj(entry)), entry)

register_item(sc, tbl, part_checksum, data) ==
    IF part_checksum \in DOMAIN tbl
    THEN IF tbl[part_checksum].tag = "Single"
         THEN LET se == tbl[part_checksum].data
                  t1 == [tbl EXCEPT ![part_checksum] = new_multi_entry]
                  t2 == add_item(sc, t1, part_checksum, se)
              IN  add_item(sc, t2, part_checksum, data)
         ELSE add_item(sc, tbl, part_checksum, data)
    ELSE [p \in DOMAIN tbl \cup {part_checksum} |->
            IF p = part_checksum THEN Single(data) ELSE tbl[p]]

Range(s) == {s[i] : i \in 1..Len(s)}

\* a variant of get_duplicates_of that does not compare a single entry with the entry asked for
get_duplicates_of_any_single(tbl, part_checksum, entry) ==
    IF part_checksum \in DOMAIN tbl
    THEN LET val == tbl[part_checksum] IN
         IF val.tag = "Single"
         THEN [ok |-> TRUE, set |-> {}]
         ELSE LET found == {c \in DOMAIN val.hashes : entry \in Range(val.hashes[c])}
              IN  IF found = {} THEN [ok |-> FALSE, set |-> {}]
                  ELSE LET c == CHOOSE c \in found : TRUE
                       IN  [ok |-> TRUE, set |-> Range(val.hashes[c]) \ {entry}]
    ELSE [ok |-> FALSE, set |-> {}]

\* Ok(set) is [ok |-> TRUE, set |-> set], Err(_) is [ok |-> FALSE, set |-> {}]
get_duplicates_of(tbl, part_checksum, entry) ==
    IF part_checksum \in DOMAIN tbl
    THEN LET val == tbl[part_checksum] IN
         IF val.tag = "Single"
         THEN [ok |-> val.data = entry, set |-> {}]
         ELSE LET found == {c \in DOMAIN val.hashes : entry \in Range(val.hashes[c])}
              IN  IF found = {} THEN [ok |-> FALSE, set |-> {}]
                  ELSE LET c == CHOOSE c \in found : TRUE
                       IN  [ok |-> TRUE, set |-> Range(val.hashes[c]) \ {entry}]
    ELSE [ok |-> FALSE, set |-> {}]

\* create_subtree of one input root: the File nodes are registered in the order they are met
RECURSIVE RegisterAll(_, _, _, _)
RegisterAll(sc, tr, tbl, s) ==
    IF s = <<>> THEN tbl
    ELSE LET n == Head(s)
             t1 == IF tr[n].type = "File"
                   THEN register_item(sc, tbl, tr[n].part_checksum, n)
                   ELSE tbl
         IN  RegisterAll(sc, tr, t1, Tail(s))

(***************************************************************************)
(* find_duplicates                                                         *)
(***************************************************************************)
HasDuplicates(tr, n) == tr[n].type \in {"File", "Dir"}

get_parent_table_data(tr, x) ==
    IF tr[x].parent # root_id THEN {tr[x].parent} ELSE {}

ParentsOf(tr, hs) == UNION {get_parent_table_data(tr, x) : x \in hs}

\* the loop of get_possible_dupl_for_dirs over the children after the first;
\* [ret |-> TRUE] is the early return that leaves the node's duplicates as they are
RECURSIVE PossibleLoop(_, _, _, _, _)
PossibleLoop(tr, dups, ch, i, result) ==
    IF i > Len(ch) THEN [ret |-> FALSE, result |-> result]
    ELSE LET c == ch[i] IN
         IF ~HasDuplicates(tr, c) \/ dups[c] = {}
         THEN [ret |-> TRUE, result |-> {}]
         ELSE PossibleLoop(tr, dups, ch, i + 1, result \cap ParentsOf(tr, dups[c]))

\* a variant of get_possible_dupl_for_dirs that does not remove the node itself
possible_dupl_keeping_self(tr, dups, n) ==
    LET ch == tr[n].children IN
    IF ch = <<>> THEN dups[n]
    ELSE IF ~HasDuplicates(tr, ch[1]) \/ dups[ch[1]] = {} THEN dups[n]
    ELSE LET r == PossibleLoop(tr, dups, ch, 2, ParentsOf(tr, dups[ch[1]]))
         IN  IF r.ret THEN dups[n] ELSE r.result

\* a variant of get_possible_dupl_for_dirs that passes over the empty directories
\* among the children
possible_dupl_skipping_empty(tr, dups, n) ==
    LET full(c) == ~(tr[c].type = "Dir" /\ tr[c].children = <<>>)
        ch == SelectSeq(tr[n].children, full)
    IN  IF ch = <<>> THEN dups[n]
        ELSE IF ~HasDuplicates(tr, ch[1]) \/ dups[ch[1]] = {} THEN dups[n]
        ELSE LET r == PossibleLoop(tr, dups, ch, 2, ParentsOf(tr, dups[ch[1]]))
             IN  IF r.ret THEN dups[n] ELSE r.result \ {n}

get_possible_dupl_for_dirs(tr, dups, n) ==
    LET ch == tr[n].children IN
    IF ch = <<>> THEN dups[n]
    ELSE IF ~HasDuplicates(tr, ch[1]) \/ dups[ch[1]] = {} THEN dups[n]
    ELSE LET r == PossibleLoop(tr, dups, ch, 2, ParentsOf(tr, dups[ch[1]]))
         IN  IF r.ret THEN dups[n] ELSE r.result \ {n}

is_duplication_mutual(tr, dups, first_id, other_id) ==
    HasDuplicates(tr, other_id) /\ first_id \in dups[other_id]

\* a variant of filter_dir_duplicates that keeps every candidate
filter_keeping_all(tr, dups, n) == dups[n]

filter_dir_duplicates(tr, dups, n) ==
    {x \in dups[n] : is_duplication_mutual(tr, dups, n, x)}

\* the loop of set_dir_size; [ret |-> TRUE] is the early return that leaves the size None
RECURSIVE SizeLoop(_, _, _, _, _)
SizeLoop(tr, sizes, ch, i, result) ==
    IF i > Len(ch) THEN [ret |-> FALSE, result |-> result]
    ELSE LET c == ch[i] IN
         CASE tr[c].type = "File" -> SizeLoop(tr, sizes, ch, i + 1, result + sizes[c])
           [] tr[c].type = "Dir" /\ sizes[c] # None ->
                SizeLoop(tr, sizes, ch, i + 1, result + sizes[c])
           [] tr[c].type = "Dir" /\ sizes[c] = None -> [ret |-> TRUE, result |-> 0]
           [] tr[c].type = "Inaccessible" -> [ret |-> TRUE, result |-> 0]
           [] OTHER -> SizeLoop(tr, sizes, ch, i + 1, result)

\* a variant of set_dir_size that leaves out the size of the directory itself
set_dir_size_without_overhead(tr, sizes, n) ==
    LET r == SizeLoop(tr, sizes, tr[n].children, 1, 0)
    IN  IF r.ret THEN sizes[n] ELSE r.result

\* a variant of set_dir_size that leaves the size as it is
set_dir_size_never(tr, sizes, n) == sizes[n]

set_dir_size(tr, sizes, n) ==
    LET r == SizeLoop(tr, sizes, tr[n].children, 1, 0)
    IN  IF r.ret THEN sizes[n] ELSE r.result + DIR_SIZE

(***************************************************************************)
(* The extractor.  Its state is es = [tags, list, panic]: the is_contained *)
(* flag of every node, the list of DuplicateObjects and whether a panic    *)
(* has been raised.                                                        *)
(***************************************************************************)
DuplicateObject(size, paths) == [duplicates |-> paths, size |-> size]

\* the derived PartialEq of DuplicateObject: both fields are compared
DuplicateObjectEq(a, b) == a.duplicates = b.duplicates /\ a.size = b.size

get_node_path(tr, n) == tr[n].path

duplicates_contain_path(list, path) ==
    \E i \in 1..Len(list) : path \in list[i].duplicates

\* a variant of recursively_tag_as_contained that clears the tag of the node
tag_as_not_contained(tr, tags, n) == [tags EXCEPT ![n] = "No"]

\* a variant of recursively_tag_as_contained that does not descend to the children
tag_node_only(tr, tags, n) == [tags EXCEPT ![n] = "ChildOfDuplicate"]

RECURSIVE recursively_tag_as_contained(_, _, _)
RECURSIVE TagAll(_, _, _)
recursively_tag_as_contained(tr, tags, n) ==
    IF tags[n] = "ChildOfDuplicate" THEN tags
    ELSE TagAll(tr, [tags EXCEPT ![n] = "ChildOfDuplicate"], tr[n].children)

\* recursively_tag_as_contained of every node of s, in turn
TagAll(tr, tags, s) ==
    IF s = <<>> THEN tags
    ELSE TagAll(tr, recursively_tag_as_contained(tr, tags, Head(s)), Tail(s))

RECURSIVE ParentsLoop(_, _)
ParentsLoop(tags, anc) ==
    IF anc = <<>> THEN tags
    ELSE IF Head(anc) = root_id THEN ParentsLoop(tags, Tail(anc))
    ELSE IF tags[Head(anc)] = "ParentOfDuplicate" THEN tags
    ELSE ParentsLoop([tags EXCEPT ![Head(anc)] = "ParentOfDuplicate"], Tail(anc))

\* a variant of set_parents_of_duplicate that tags the parent of the node only
set_parent_only(tr, tags, n) ==
    IF tr[n].parent = root_id THEN tags ELSE [tags EXCEPT ![tr[n].parent] = "ParentOfDuplicate"]

set_parents_of_duplicate(tr, tags, n) == ParentsLoop(tags, AncestorIds(tr, n))

make_duplicate_object_from_node(tr, dups, sizes, n) ==
    DuplicateObject(sizes[n], {get_node_path(tr, x) : x \in dups[n]} \cup {get_node_path(tr, n)})

\* duplicates.iter().position(|x| *x == dup_obj); 0 when there is none
Position(list, dup_obj) ==
    LET found == {i \in 1..Len(list) : DuplicateObjectEq(list[i], dup_obj)}
    IN  IF found = {} THEN 0 ELSE CHOOSE i \in found : \A j \in found : i <= j

RemoveAt(list, i) == SubSeq(list, 1, i - 1) \o SubSeq(list, i + 1, Len(list))

SelectNodes(s, tags, wanted) ==
    LET acc[i \in 0..Len(s)] ==
            IF i = 0 THEN <<>>
            ELSE IF tags[s[i]] \in wanted THEN Append(acc[i - 1], s[i]) ELSE acc[i - 1]
    IN  acc[Len(s)]

\* a variant of remove_duplicate_from_list that removes nothing
remove_nothing(tr, dups, sizes, es, n) == es

RECURSIVE remove_duplicate_from_list(_, _, _, _, _)
RECURSIVE RemoveAll(_, _, _, _, _)
remove_duplicate_from_list(tr, dups, sizes, es, n) ==
    IF es.panic THEN es
    ELSE
    LET is_dup == es.tags[n] = "Duplicate"
        dup_obj == make_duplicate_object_from_node(tr, dups, sizes, n)
        pos == Position(es.list, dup_obj)
        fails == is_dup /\ (~HasDuplicates(tr, n) \/ sizes[n] = None \/ pos = 0)
        dupl_nodes == IF is_dup THEN dups[n] \cup {n} ELSE {}
        es1 == [tags |-> [x \in DOMAIN es.tags |->
                            IF x \in dupl_nodes THEN "ChildOfDuplicate" ELSE es.tags[x]],
                list |-> IF is_dup THEN RemoveAt(es.list, pos) ELSE es.list,
                panic |-> FALSE]
        children == SelectNodes(tr[n].children, es1.tags, {"ParentOfDuplicate", "Duplicate"})
    IN  IF fails THEN [es EXCEPT !.panic = TRUE]
        ELSE RemoveAll(tr, dups, sizes, es1, children)

\* remove_duplicate_from_list of every node of s, in turn
RemoveAll(tr, dups, sizes, es, s) ==
    IF s = <<>> \/ es.panic THEN es
    ELSE RemoveAll(tr, dups, sizes,
                   remove_duplicate_from_list(tr, dups, sizes, es, Head(s)), Tail(s))

\* the second loop of add_duplicates_to_list
RECURSIVE RemoveParents(_, _, _, _, _)
RemoveParents(tr, dups, sizes, es, ord) ==
    IF ord = <<>> \/ es.panic THEN es
    ELSE LET id == Head(ord)
             es1 == IF es.tags[id] = "ParentOfDuplicate"
                    THEN remove_duplicate_from_list(tr, dups, sizes, es, id)
                    ELSE es
         IN  RemoveParents(tr, dups, sizes, es1, Tail(ord))

\* the loop of add_duplicates_to_list over the members of a group that is added
RECURSIVE TagMembers(_, _, _)
TagMembers(tr, tags, ord) ==
    IF ord = <<>> THEN tags
    ELSE LET id == Head(ord)
             t1 == TagAll(tr, tags, tr[id].children)
             t2 == set_parents_of_duplicate(tr, t1, id)
         IN  TagMembers(tr, [t2 EXCEPT ![id] = "Duplicate"], Tail(ord))

\* a variant of add_duplicates_to_list that adds the group whatever the tags of its members
add_duplicates_unconditionally(tr, dups, sizes, es, size, ord) ==
    LET es1 == RemoveParents(tr, dups, sizes, es, ord)
        paths == {get_node_path(tr, x) : x \in Range(ord)}
    IN  IF es1.panic THEN es1
        ELSE [tags |-> TagMembers(tr, es1.tags, ord),
              list |-> Append(es1.list, DuplicateObject(size, paths)),
              panic |-> FALSE]

\* ord is the order in which the HashSet `data` is iterated
add_duplicates_to_list(tr, dups, sizes, es, size, ord) ==
    LET data == Range(ord)
        contained == \E id \in data : es.tags[id] = "ChildOfDuplicate"
        es1 == RemoveParents(tr, dups, sizes, es, ord)
        paths == {get_node_path(tr, x) : x \in data}
    IN  IF es1.panic THEN es1
        ELSE IF ~contained
        THEN [tags |-> TagMembers(tr, es1.tags, ord),
              list |-> Append(es1.list, DuplicateObject(size, paths)),
              panic |-> FALSE]
        ELSE [es1 EXCEPT !.tags = TagAll(tr, es1.tags, ord)]

\* a variant of dupl_data that lets through a size equal to the minimum
dupl_data_from_minimum(tr, dups, sizes, list, min, n) ==
    LET qualifies == HasDuplicates(tr, n) /\ dups[n] # {}
                     /\ ~duplicates_contain_path(list, tr[n].path)
    IN  [panic |-> qualifies /\ tr[n].type = "Dir" /\ sizes[n] = None,
         some |-> qualifies /\ sizes[n] # None /\ sizes[n] >= min]

\* dupl_data of recursively_get_duplicates: [some |-> TRUE] is Some(..), panic the failed expect
dupl_data(tr, dups, sizes, list, min, n) ==
    LET qualifies == HasDuplicates(tr, n) /\ dups[n] # {}
                     /\ ~duplicates_contain_path(list, tr[n].path)
    IN  [panic |-> qualifies /\ tr[n].type = "Dir" /\ sizes[n] = None,
         some |-> qualifies /\ sizes[n] # None /\ sizes[n] > min]

\* the orders in which a set can be arranged
RECURSIVE Orders(_)
Orders(S) ==
    IF S = {} THEN {<<>>}
    ELSE UNION {{<<x>> \o o : o \in Orders(S \ {x})} : x \in S}

Related(tr, data) ==
    \E x \in data, y \in data : x # y /\ x \in Range(AncestorIds(tr, y))

\* The orders in which the HashSet `data` can be iterated.  The loops of
\* add_duplicates_to_list depend on the order only through the members that
\* are ParentOfDuplicate (the second loop skips the others) unless a member
\* lies below another member (the third loop writes below and above each
\* member), so the other members are put last when no two are related.
IterationOrders(tr, tags, data) ==
    IF Related(tr, data) THEN Orders(data)
    ELSE LET par == {x \in data : tags[x] = "ParentOfDuplicate"}
         IN  {o \o Ascending(data \ par) : o \in Orders(par)}

\* one iteration of the first loop of find_duplicates, for node n
Pass1Step(tr, tbl, dups, n) ==
    LET rec == get_duplicates_of(tbl, tr[n].part_checksum, n) IN
    CASE tr[n].type = "File" ->
            [panic |-> ~rec.ok, dups |-> IF rec.ok THEN [dups EXCEPT ![n] = rec.set] ELSE dups]
      [] tr[n].type = "Dir" ->
            [panic |-> FALSE, dups |-> [dups EXCEPT ![n] = get_possible_dupl_for_dirs(tr, dups, n)]]
      [] OTHER -> [panic |-> FALSE, dups |-> dups]

\* one iteration of the second loop of find_duplicates, for node n
Pass2Step(tr, dups, sizes, n) ==
    IF tr[n].type = "Dir"
    THEN [dups |-> [dups EXCEPT ![n] = filter_dir_duplicates(tr, dups, n)],
          sizes |-> [sizes EXCEPT ![n] = set_dir_size(tr, sizes, n)]]
    ELSE [dups |-> dups, sizes |-> sizes]

\* a variant of VisitResults that does not go on to the children of a node
VisitWithoutDescent(tr, dups, sizes, min, es, stk) ==
    LET n == Head(stk)
        dd == dupl_data(tr, dups, sizes, es.list, min, n)
    IN  IF dd.panic THEN {[es |-> [es EXCEPT !.panic = TRUE], stack |-> Tail(stk)]}
        ELSE IF dd.some
        THEN {[es |-> add_duplicates_to_list(tr, dups, sizes, es, sizes[n], ord),
               stack |-> Tail(stk)] : ord \in IterationOrders(tr, es.tags, dups[n] \cup {n})}
        ELSE {[es |-> es, stack |-> Tail(stk)]}

\* one call of recursively_get_duplicates for the node on top of the stack, without
\* the calls it makes on the children: the states [es, stack] it can end in
VisitResults(tr, dups, sizes, min, es, stk) ==
    LET n == Head(stk)
        dd == dupl_data(tr, dups, sizes, es.list, min, n)
    IN  IF dd.panic THEN {[es |-> [es EXCEPT !.panic = TRUE], stack |-> Tail(stk)]}
        ELSE IF dd.some
        THEN {[es |-> add_duplicates_to_list(tr, dups, sizes, es, sizes[n], ord),
               stack |-> Tail(stk)] : ord \in IterationOrders(tr, es.tags, dups[n] \cup {n})}
        ELSE {[es |-> es, stack |-> tr[n].children \o Tail(stk)]}

\* duplicates.sort_by_key(|x| x.size): a stable insertion
RECURSIVE InsertBySize(_, _)
InsertBySize(sorted, x) ==
    IF sorted = <<>> THEN <<x>>
    ELSE IF sorted[Len(sorted)].size <= x.size THEN Append(sorted, x)
    ELSE Append(InsertBySize(SubSeq(sorted, 1, Len(sorted) - 1), x), sorted[Len(sorted)])

\* a variant of sort_by_key_size that leaves the list as it is
sort_keeping_order(list) == list

sort_by_key_size(list) ==
    LET acc[i \in 0..Len(list)] == IF i = 0 THEN <<>> ELSE InsertBySize(acc[i - 1], list[i])
    IN  acc[Len(list)]

reverse(list) == [i \in 1..Len(list) |-> list[Len(list) + 1 - i]]

(***************************************************************************)
(* The inputs                                                              *)
(***************************************************************************)
RECURSIVE SumLen(_, _)
SumLen(sc, i) == IF i > Len(sc) THEN 0 ELSE Len(Templates[sc[i]]) + SumLen(sc, i + 1)

\* the templates that are combined with each other
Families == { {1, 2, 3, 7, 12}, {4, 5, 8, 10}, {1, 6, 9, 11}, {2, 3, 13}, {3, 14, 15}, {1, 16, 17}, {1, 18, 19} }

Scenarios ==
    {sc \in UNION {[1..k -> fam] : k \in 1..MaxTops, fam \in Families} :
        SumLen(sc, 1) <= MaxObjs}

\* the input paths: T itself, or the entries of T, or T and its first entry
RootLists(sc) ==
    { <<T>>, [i \in 1..Len(sc) |-> Obj(i, 1)], <<T, Obj(1, 1)>> }

MinSizes == {0, 100, 4108}

FileLen(sc, n) == FsEntry(sc, NodeObj(n)).len

Init ==
    /\ fs \in Scenarios
    /\ roots \in RootLists(fs)
    /\ min_size \in MinSizes
    /\ pc = "add_directories"
    /\ added = 0
    /\ dir_tree = TreeOf(fs, roots, 0)
    /\ table = <<>>
    /\ node_duplicates = [n \in {root_id} |-> {}]
    /\ node_size = [n \in {root_id} |-> None]
    /\ is_contained = [n \in {root_id} |-> "No"]
    /\ order = <<>>
    /\ idx = 0
    /\ stack = <<>>
    /\ duplicates = <<>>
    /\ prompt = <<>>
    /\ pool = <<>>

\* add_directories: create_subtree of the next input root
create_subtree ==
    /\ pc = "add_directories"
    /\ added < Len(roots)
    /\ IF IngestPanics(fs, roots, added + 1)
       THEN /\ pc' = "panic"
            /\ UNCHANGED <<dir_tree, table, node_duplicates, node_size, is_contained, added>>
       ELSE /\ LET tr == TreeOf(fs, roots, added + 1)
                   new == PreOrderSeq(tr, <<NodeId(added + 1, roots[added + 1])>>)
               IN  /\ dir_tree' = tr
                   /\ table' = RegisterAll(fs, tr, table, new)
                   /\ node_duplicates' = [n \in DOMAIN tr |-> {}]
                   /\ node_size' = [n \in DOMAIN tr |->
                                       IF tr[n].type = "File" THEN FileLen(fs, n) ELSE None]
                   /\ is_contained' = [n \in DOMAIN tr |-> "No"]
            /\ added' = added + 1
            /\ pc' = pc
    /\ UNCHANGED <<prompt, pool, fs, roots, min_size, order, idx, stack, duplicates>>

\* tree.finalise(), and the start of DirTree::get_duplicates
finalise ==
    /\ pc = "add_directories"
    /\ added = Len(roots)
    /\ pc' = "find_duplicates_1"
    /\ order' = PostOrderSeq(dir_tree, get_root_ids(dir_tree))
    /\ idx' = 0
    /\ UNCHANGED <<prompt, pool, fs, roots, min_size, added, dir_tree, table, node_duplicates,
                   node_size, is_contained, stack, duplicates>>

\* one iteration of the first loop of find_duplicates
find_duplicates_1 ==
    /\ pc = "find_duplicates_1"
    /\ idx < Len(order)
    /\ LET r == Pass1Step(dir_tree, table, node_duplicates, order[idx + 1])
       IN  /\ node_duplicates' = r.dups
           /\ pc' = IF r.panic THEN "panic"
                    ELSE IF idx + 1 = Len(order) THEN "find_duplicates_2" ELSE pc
           /\ idx' = IF ~r.panic /\ idx + 1 = Len(order) THEN 0 ELSE idx + 1
    /\ UNCHANGED <<prompt, pool, fs, roots, min_size, added, dir_tree, table, node_size,
                   is_contained, order, stack, duplicates>>

\* one iteration of the second loop of find_duplicates
find_duplicates_2 ==
    /\ pc = "find_duplicates_2"
    /\ idx < Len(order)
    /\ LET r == Pass2Step(dir_tree, node_duplicates, node_size, order[idx + 1])
       IN  /\ node_duplicates' = r.dups
           /\ node_size' = r.sizes
    /\ idx' = idx + 1
    /\ pc' = IF idx + 1 = Len(order) THEN "extract" ELSE pc
    /\ stack' = IF idx + 1 = Len(order) THEN get_root_ids(dir_tree) ELSE stack
    /\ UNCHANGED <<prompt, pool, fs, roots, min_size, added, dir_tree, table, is_contained,
                   order, duplicates>>

\* one call of recursively_get_duplicates, without the calls it makes on the children
recursively_get_duplicates ==
    /\ pc = "extract"
    /\ stack # <<>>
    /\ \E r \in VisitResults(dir_tree, node_duplicates, node_size, min_size,
                             [tags |-> is_contained, list |-> duplicates, panic |-> FALSE],
                             stack) :
          /\ is_contained' = r.es.tags
          /\ duplicates' = r.es.list
          /\ stack' = r.stack
          /\ pc' = IF r.es.panic THEN "panic" ELSE pc
    /\ UNCHANGED <<prompt, pool, fs, roots, min_size, added, dir_tree, table, node_duplicates,
                   node_size, order, idx>>

\* the end of lib::get_duplicates: the list is sorted by size, largest first
sort_and_return ==
    /\ pc = "extract"
    /\ stack = <<>>
    /\ duplicates' = reverse(sort_by_key_size(duplicates))
    /\ pc' = "done"
    /\ UNCHANGED <<prompt, pool, fs, roots, min_size, added, dir_tree, table, node_duplicates,
                   node_size, is_contained, order, idx, stack>>

Next ==
    \/ create_subtree
    \/ finalise
    \/ find_duplicates_1
    \/ find_duplicates_2
    \/ recursively_get_duplicates
    \/ sort_and_return

Spec == Init /\ [][Next]_vars

(***************************************************************************)
(* A whole run of get_duplicates as an operator: the outcomes it can have  *)
(* for a list of roots, over the orders in which the HashSets are iterated *)
(***************************************************************************)
RECURSIVE RunIngest(_, _, _, _, _)
RunIngest(sc, rs, tr, tbl, k) ==
    IF k > Len(rs) THEN tbl
    ELSE RunIngest(sc, rs, tr,
                   RegisterAll(sc, tr, tbl, PreOrderSeq(tr, <<NodeId(k, rs[k])>>)), k + 1)

RECURSIVE RunPass1(_, _, _, _)
RunPass1(tr, tbl, r, ord) ==
    IF ord = <<>> \/ r.panic THEN r
    ELSE RunPass1(tr, tbl, Pass1Step(tr, tbl, r.dups, Head(ord)), Tail(ord))

RECURSIVE RunPass2(_, _, _)
RunPass2(tr, r, ord) ==
    IF ord = <<>> THEN r
    ELSE RunPass2(tr, Pass2Step(tr, r.dups, r.sizes, Head(ord)), Tail(ord))

PanicOutcome == [panic |-> TRUE, groups |-> {}]

\* the emitted groups, compared by their path sets
GroupSet(list) == {list[i].duplicates : i \in 1..Len(list)}

RECURSIVE RunExtract(_, _, _, _, _, _)
RunExtract(tr, dups, sizes, min, es, stk) ==
    IF es.panic THEN {PanicOutcome}
    ELSE IF stk = <<>> THEN {[panic |-> FALSE, groups |-> GroupSet(es.list)]}
    ELSE UNION {RunExtract(tr, dups, sizes, min, r.es, r.stack) :
                    r \in VisitResults(tr, dups, sizes, min, es, stk)}

\* the outcomes of find_duplicates and the extraction over a finalised table
OutcomesFrom(sc, rs, min, tbl) ==
    LET tr == TreeOf(sc, rs, Len(rs))
        ord == PostOrderSeq(tr, get_root_ids(tr))
        p1 == RunPass1(tr, tbl, [panic |-> FALSE, dups |-> [n \in DOMAIN tr |-> {}]], ord)
        p2 == RunPass2(tr, [dups |-> p1.dups,
                            sizes |-> [n \in DOMAIN tr |->
                                         IF tr[n].type = "File" THEN FileLen(sc, n) ELSE None]],
                       ord)
    IN  IF p1.panic THEN {PanicOutcome}
        ELSE RunExtract(tr, p2.dups, p2.sizes, min,
                        [tags |-> [n \in DOMAIN tr |-> "No"], list |-> <<>>, panic |-> FALSE],
                        get_root_ids(tr))

Outcomes(sc, rs, min) ==
    IF IngestPanics(sc, rs, Len(rs)) THEN {PanicOutcome}
    ELSE OutcomesFrom(sc, rs, min, RunIngest(sc, rs, TreeOf(sc, rs, Len(rs)), <<>>, 1))

\* the list of roots rs given in the order p
Permuted(rs, p) == [i \in 1..Len(rs) |-> rs[p[i]]]

(***************************************************************************)
(* Vocabulary of the properties                                            *)
(***************************************************************************)
\* the nodes of the tree other than the synthetic root
Nodes == DOMAIN dir_tree \ {root_id}

\* find_duplicates has returned
AfterEquivalence == pc \in {"extract", "done"}

\* path p is equal to path q or an ancestor of it
PathPrefix(p, q) == p \in FsAncOrSelf(fs, q)

\* the ancestors of n, without n and without the synthetic root
StrictAncestors(n) == Range(AncestorIds(dir_tree, n)) \ {root_id, n}

\* the path of node n is a member of some group of the list
InGroup(n) == duplicates_contain_path(duplicates, get_node_path(dir_tree, n))

\* the nodes whose path is a member of group g
MemberNodes(g) == {n \in Nodes : get_node_path(dir_tree, n) \in g.duplicates}

\* n is a largest duplicated descendant of a Dir that is not duplicated
LargestDuplicated(n) ==
    /\ HasDuplicates(dir_tree, n)
    /\ node_duplicates[n] # {}
    /\ node_size[n] # None /\ node_size[n] > min_size
    /\ StrictAncestors(n) # {}
    /\ \A a \in StrictAncestors(n) : node_duplicates[a] = {}

\* the sizes of the File and Dir children ch, the others counting 0
RECURSIVE SumSizes(_)
SumSizes(ch) ==
    IF ch = <<>> THEN 0
    ELSE (IF HasDuplicates(dir_tree, Head(ch)) THEN node_size[Head(ch)] ELSE 0)
         + SumSizes(Tail(ch))

(***************************************************************************)
(* Properties                                                              *)
(***************************************************************************)
\* C1: after the extraction has completed, no path of an emitted group is equal
\* to, or an ancestor of, a path of another emitted group, whatever the tree and
\* the order of the roots
C1_Topmost ==
    pc = "done" =>
        \A i \in 1..Len(duplicates), j \in 1..Len(duplicates) :
            i # j => \A p \in duplicates[i].duplicates, q \in duplicates[j].duplicates :
                        ~PathPrefix(p, q)

\* two groups are emitted and the group of a node that surfaced on its own has
\* been taken out of the list again
C1_Witness ==
    /\ pc = "done"
    /\ Len(duplicates) >= 2
    /\ \E n \in Nodes : /\ LargestDuplicated(n)
                        /\ ~InGroup(n)
                        /\ is_contained[n] = "ChildOfDuplicate"

\* C2: the set of emitted groups, compared by their path sets, is the same for
\* every permutation of the list of input roots
C2_RootOrder ==
    pc = "done" =>
        \A p \in Orders(1..Len(roots)) :
            Outcomes(fs, Permuted(roots, p), min_size) =
                {[panic |-> FALSE, groups |-> GroupSet(duplicates)]}

\* C3: every group of the returned list contains at least 2 distinct paths
C3_TwoPaths ==
    pc = "done" =>
        \A i \in 1..Len(duplicates) : Cardinality(duplicates[i].duplicates) >= 2

\* C4: the size reported for an emitted group is the size of every member node
\* of it, which therefore exceeds the minimum size
C4_MemberSize ==
    pc = "done" =>
        \A i \in 1..Len(duplicates) : \A n \in MemberNodes(duplicates[i]) :
            /\ node_size[n] = duplicates[i].size
            /\ node_size[n] > min_size

\* C5: the size reported for every emitted group is strictly greater than the
\* minimum size
C5_MinimumSize ==
    AfterEquivalence =>
        \A i \in 1..Len(duplicates) : duplicates[i].size > min_size

\* a group is emitted while a duplicated node that is not above the minimum
\* size stays out of the list, with nothing emitted above it
C5_Witness ==
    /\ pc = "done"
    /\ min_size > 0
    /\ Len(duplicates) >= 1
    /\ \E n \in Nodes : /\ node_duplicates[n] # {}
                        /\ node_size[n] # None /\ node_size[n] <= min_size
                        /\ ~InGroup(n)
                        /\ \A a \in StrictAncestors(n) : ~InGroup(a)

C7_Symmetric ==
    AfterEquivalence =>
        \A a \in Nodes, b \in Nodes :
            (b \in node_duplicates[a]) <=> (a \in node_duplicates[b])

\* two Dirs are duplicates of each other, and a third Dir has lost all the
\* candidates its children gave it
C7_Witness ==
    /\ AfterEquivalence
    /\ \E x \in Nodes, y \in Nodes :
          dir_tree[x].type = "Dir" /\ y \in node_duplicates[x]
    /\ \E e \in Nodes : /\ dir_tree[e].type = "Dir"
                        /\ node_duplicates[e] = {}
                        /\ get_possible_dupl_for_dirs(dir_tree, node_duplicates, e) # {}

\* C8: no node is ever an element of its own duplicate set
C8_NotItsOwnDuplicate ==
    \A n \in DOMAIN node_duplicates : n \notin node_duplicates[n]

\* a Dir with duplicates has two children that are duplicates of each other, so
\* that the parents of its children's duplicates include the Dir itself
C8_Witness ==
    /\ AfterEquivalence
    /\ \E n \in Nodes :
          /\ dir_tree[n].type = "Dir"
          /\ node_duplicates[n] # {}
          /\ \E c \in Range(dir_tree[n].children) :
                \E d \in node_duplicates[c] : dir_tree[d].parent = n

\* C9: after find_duplicates, whenever Dir Y is in the duplicate set of Dir X,
\* every child of X has a child of Y in its duplicate set and every child of Y
\* has a child of X in its duplicate set
C9_ChildrenEquivalent ==
    AfterEquivalence =>
        \A x \in Nodes, y \in Nodes :
            (dir_tree[x].type = "Dir" /\ y \in node_duplicates[x]) =>
                /\ \A c \in Range(dir_tree[x].children) :
                      \E d \in Range(dir_tree[y].children) : d \in node_duplicates[c]
                /\ \A d \in Range(dir_tree[y].children) :
                      \E c \in Range(dir_tree[x].children) : c \in node_duplicates[d]

\* C10: after find_duplicates, the size of a Dir is None exactly when one of its
\* descendants is Inaccessible, and otherwise the sum of the sizes of its File
\* and Dir children plus DIR_SIZE
C10_DirSize ==
    AfterEquivalence =>
        \A n \in Nodes : dir_tree[n].type = "Dir" =>
            /\ (node_size[n] = None) <=>
                  (\E d \in Descendants(dir_tree, n) : dir_tree[d].type = "Inaccessible")
            /\ node_size[n] # None =>
                  node_size[n] = SumSizes(dir_tree[n].children) + DIR_SIZE

\* a Dir with a File and a Symlink child has a size, and a Dir has none because
\* of an Inaccessible node that is not its child
C10_Witness ==
    /\ AfterEquivalence
    /\ \E n \in Nodes :
          /\ dir_tree[n].type = "Dir" /\ node_size[n] # None
          /\ \E c \in Range(dir_tree[n].children) : dir_tree[c].type = "Symlink"
          /\ \E c \in Range(dir_tree[n].children) : dir_tree[c].type = "File"
    /\ \E m \in Nodes :
          /\ dir_tree[m].type = "Dir" /\ node_size[m] = None
          /\ \A c \in Range(dir_tree[m].children) : dir_tree[c].type # "Inaccessible"

\* the files f and g have the same content
SameContent(f, g) ==
    /\ dir_tree[f].part_checksum = dir_tree[g].part_checksum
    /\ get_checksum(fs, NodeObj(f)) = get_checksum(fs, NodeObj(g))

\* n is a node that cannot have duplicates
Degraded(n) == dir_tree[n].type \in {"Inaccessible", "Symlink"}

\* C11: an Inaccessible or Symlink node is in no duplicate set and in no
\* emitted group, a Dir with such a descendant has an empty duplicate set and is
\* in no emitted group, the run does not fail, and the Files beneath such a Dir
\* that have a copy still get a non-empty duplicate set
C11_LocalDegradation ==
    (\E n \in Nodes : Degraded(n)) =>
        /\ pc # "panic"
        /\ \A n \in Nodes :
              Degraded(n) \/ (\E d \in Descendants(dir_tree, n) : Degraded(d)) =>
                  /\ node_duplicates[n] = {}
                  /\ Degraded(n) => \A m \in Nodes : n \notin node_duplicates[m]
                  /\ ~InGroup(n)
        /\ AfterEquivalence =>
              \A f \in Nodes, g \in Nodes :
                  (/\ f # g
                   /\ dir_tree[f].type = "File" /\ dir_tree[g].type = "File"
                   /\ SameContent(f, g)
                   /\ \E a \in StrictAncestors(f) : \E d \in Descendants(dir_tree, a) : Degraded(d))
                  => g \in node_duplicates[f]

\* C12: the returned list is ordered by size, non-increasing
C12_SortedBySize ==
    pc = "done" =>
        \A i \in 1..(Len(duplicates) - 1) : duplicates[i].size >= duplicates[i + 1].size

\* a list of three groups of which two have the same size is returned
C12_Witness ==
    /\ pc = "done"
    /\ Len(duplicates) >= 3
    /\ \E i \in 1..(Len(duplicates) - 1) : duplicates[i].size > duplicates[i + 1].size
    /\ \E i \in 1..(Len(duplicates) - 1) : duplicates[i].size = duplicates[i + 1].size

\* the partial checksums and the entries a query of the table is made with:
\* those of the table and of the tree, and a partial checksum that is unknown
QueryParts == DOMAIN table \cup {0}
QueryEntries == DOMAIN dir_tree

\* the lists of the slot of partial checksum p that contain the entry r
ListsWith(p, r) ==
    {c \in DOMAIN table[p].hashes : r \in Range(table[p].hashes[c])}

\* the answers of get_duplicates: the empty set when the slot is Single and holds
\* the entry, the other members of the entry's list when the slot is Multiple
\* and a list contains the entry, and an Err when the partial checksum is
\* unknown, the Single slot holds another entry or no list contains the entry
QueriesAnswered ==
    \A p \in QueryParts, r \in QueryEntries :
        LET res == get_duplicates_of(table, p, r) IN
        /\ p \notin DOMAIN table => ~res.ok
        /\ p \in DOMAIN table /\ table[p].tag = "Single" =>
              IF table[p].data = r THEN res.ok /\ res.set = {} ELSE ~res.ok
        /\ p \in DOMAIN table /\ table[p].tag = "Multiple" =>
              IF ListsWith(p, r) = {} THEN ~res.ok
              ELSE /\ res.ok
                   /\ \A c \in ListsWith(p, r) : res.set = Range(table[p].hashes[c]) \ {r}

\* C16: every query of get_duplicates is answered as described above, and the
\* queries of find_duplicates leave the table as it is
C16_Queries ==
    /\ []QueriesAnswered
    /\ [][(pc = "find_duplicates_1") => (table' = table)]_vars

\* the table has a Single slot, and a Multiple slot with two lists of which one
\* has several entries, while the first loop of find_duplicates queries it
C16_Witness ==
    /\ pc = "find_duplicates_1"
    /\ idx > 0
    /\ \E p \in DOMAIN table : table[p].tag = "Single"
    /\ \E p \in DOMAIN table :
          /\ table[p].tag = "Multiple"
          /\ Cardinality(DOMAIN table[p].hashes) >= 2
          /\ \E c \in DOMAIN table[p].hashes : Len(table[p].hashes[c]) >= 2

\* C18: two DuplicateObjects are equal exactly when their path sets are equal,
\* also when a group of the list is compared with the group rebuilt from a node
C18_EqualityByPaths ==
    \A i \in 1..Len(duplicates) : \A n \in Nodes :
        (HasDuplicates(dir_tree, n) /\ node_size[n] # None) =>
            LET dup_obj == make_duplicate_object_from_node(dir_tree, node_duplicates, node_size, n)
            IN  DuplicateObjectEq(duplicates[i], dup_obj)
                    <=> (duplicates[i].duplicates = dup_obj.duplicates)

(***************************************************************************)
(* The prompt for an action on a group: Actions::get_from_input of         *)
(* bin/actions.rs.  The paths of the group are written as numbers.         *)
(***************************************************************************)
MAX_RETRIES == 4

\* at most this many file numbers in one line of input
MaxNums == 3
\* the largest file number in a line of input
MaxNumber == 3

\* lib::get_duplicates is not running
EngineIdle ==
    /\ fs = <<>> /\ roots = <<>> /\ min_size = 0 /\ pc = "idle" /\ added = 0
    /\ dir_tree = <<>> /\ table = <<>> /\ node_duplicates = <<>> /\ node_size = <<>>
    /\ is_contained = <<>> /\ order = <<>> /\ idx = 0 /\ stack = <<>> /\ duplicates = <<>>

\* the paths of the group that is shown
GroupFiles == { <<1, 2>>, <<1, 2, 3>> }

ActionLetters == {"O", "F", "D", "H", "S", "N", "Q"}
Destructive == {"D", "H", "S"}

\* a line of input: a letter followed by file numbers
InputLines ==
    [letter : ActionLetters \cup {"X"},
     nums : UNION {[1..k -> 0..MaxNumber] : k \in 0..MaxNums}]

\* Ok((action, files)) or Err(_)
parse_action_input(input) ==
    IF input.letter \in ActionLetters
    THEN [ok |-> TRUE, action |-> input.letter, files |-> input.nums]
    ELSE [ok |-> FALSE, action |-> "", files |-> <<>>]

\* file_nums.iter().max().unwrap_or(&0)
MaxOf(nums) ==
    IF nums = <<>> THEN 0 ELSE CHOOSE m \in Range(nums) : \A x \in Range(nums) : x <= m

\* the paths of files whose index, counted from 0, is among file_nums
acted_paths(files, file_nums) ==
    LET acc[i \in 0..Len(files)] ==
            IF i = 0 THEN <<>>
            ELSE IF (i - 1) \in Range(file_nums) THEN Append(acc[i - 1], files[i])
                 ELSE acc[i - 1]
    IN  acc[Len(files)]

\* a variant of original_path that takes the first path of the group
first_path(files, acted) == files[1]

\* files.iter().find(|x| !acted_paths.contains(x)).unwrap()
original_path(files, acted) ==
    LET kept == {i \in 1..Len(files) : files[i] \notin Range(acted)}
    IN  files[CHOOSE i \in kept : \A j \in kept : i <= j]

\* `continue`: the next iteration of the loop, or the Err after the last one
Continue(p, input) ==
    [p EXCEPT !.input = input, !.i = p.i + 1,
              !.status = IF p.i + 1 < MAX_RETRIES THEN "prompt" ELSE "err"]

\* one iteration of the loop of get_from_input on the line `input`
Attempt(p, input) ==
    LET parsed == parse_action_input(input)
        acted == acted_paths(p.files, parsed.files)
    IN  IF ~parsed.ok THEN Continue(p, input)
        ELSE IF MaxOf(parsed.files) > Len(p.files) THEN Continue(p, input)
        ELSE IF parsed.action \in Destructive /\ Len(acted) >= Len(p.files)
        THEN Continue(p, input)
        ELSE [p EXCEPT !.input = input, !.status = "ok", !.action = parsed.action,
                       !.acted = acted,
                       !.original = IF parsed.action \in Destructive
                                    THEN original_path(p.files, acted) ELSE None]

InitActions ==
    /\ EngineIdle
    /\ pool = <<>>
    /\ \E files \in GroupFiles :
          prompt = [files |-> files, i |-> 0, status |-> "prompt",
                    input |-> [letter |-> "N", nums |-> <<>>],
                    action |-> "", acted |-> <<>>, original |-> None,
                    exec |-> "idle", k |-> 0, log |-> <<>>, removed |-> {}]

\* io::stdin().read_line and the rest of the loop iteration
read_line ==
    /\ prompt.status = "prompt"
    /\ \E input \in InputLines : prompt' = Attempt(prompt, input)
    /\ UNCHANGED <<engine_vars, pool>>

\* Actions::execute of Delete(files, original): the loop over files begins
execute_delete ==
    /\ prompt.status = "ok" /\ prompt.action = "D" /\ prompt.exec = "idle"
    /\ prompt' = IF prompt.acted = <<>> THEN [prompt EXCEPT !.exec = "ok"]
                 ELSE [prompt EXCEPT !.exec = "confirm", !.k = 1]
    /\ UNCHANGED <<engine_vars, pool>>

\* the path delete_dir is called for
Deleted(p) == p.acted[p.k]

Logged(p, event) == [p EXCEPT !.log = Append(@, <<Deleted(p), event>>)]

\* delete_dir has returned Ok: the next path of the loop, or the end of execute
NextFile(p) ==
    IF p.k < Len(p.acted) THEN [p EXCEPT !.k = @ + 1, !.exec = "confirm"]
    ELSE [p EXCEPT !.exec = "ok"]

\* delete_dir after the dialogue: answer is what interact() gave
after_confirm(p, answer) ==
    CASE answer = "yes" -> [Logged(p, "confirmed") EXCEPT !.exec = "verify"]
      [] answer = "no" -> NextFile(Logged(p, "declined"))
      [] OTHER -> [Logged(p, "no_dialogue") EXCEPT !.exec = "panicked"]

\* a variant of after_verify that goes on to the removal whatever verify_copy returned
remove_unverified(p, r) ==
    CASE r = "true" -> [Logged(p, "verified") EXCEPT !.exec = "remove"]
      [] r = "false" -> [Logged(p, "unverified") EXCEPT !.exec = "remove"]
      [] r = "err" -> [Logged(p, "unverified") EXCEPT !.exec = "remove"]
      [] OTHER -> [Logged(p, "verify_panicked") EXCEPT !.exec = "panicked"]

\* delete_dir after verify_copy(original, deleted): r is Ok(true), Ok(false),
\* Err(_) or the panic of compare(..).unwrap()
after_verify(p, r) ==
    CASE r = "true" -> [Logged(p, "verified") EXCEPT !.exec = "remove"]
      [] r = "false" -> [Logged(p, "unverified") EXCEPT !.exec = "err"]
      [] r = "err" -> [Logged(p, "unverified") EXCEPT !.exec = "err"]
      [] OTHER -> [Logged(p, "verify_panicked") EXCEPT !.exec = "panicked"]

\* delete_dir: the Confirm dialogue
confirm ==
    /\ prompt.exec = "confirm"
    /\ \E answer \in {"yes", "no", "fail"} : prompt' = after_confirm(prompt, answer)
    /\ UNCHANGED <<engine_vars, pool>>

\* delete_dir: verify_copy(original, deleted)
verify_copy ==
    /\ prompt.exec = "verify"
    /\ \E r \in {"true", "false", "err", "panic"} : prompt' = after_verify(prompt, r)
    /\ UNCHANGED <<engine_vars, pool>>

\* delete_dir: remove_dir_all or remove_file, which succeeds or returns an error
remove ==
    /\ prompt.exec = "remove"
    /\ \/ prompt' = NextFile([Logged(prompt, "removed") EXCEPT
                                 !.removed = @ \cup {Deleted(prompt)}])
       \/ prompt' = [Logged(prompt, "remove_failed") EXCEPT
                        !.removed = @ \cup {Deleted(prompt)}, !.exec = "err"]
    /\ UNCHANGED <<engine_vars, pool>>

NextActions ==
    \/ read_line
    \/ execute_delete
    \/ confirm
    \/ verify_copy
    \/ remove

SpecActions == InitActions /\ [][NextActions]_vars

\* the line of input names every path of the group for a destructive action
NamesEveryPath(p) ==
    /\ p.input.letter \in Destructive
    /\ \A k \in 0..(Len(p.files) - 1) : k \in Range(p.input.nums)

\* a destructive action carries an original path that is a member of the group
\* and is not among the paths to be changed
KeepsOriginal ==
    (prompt.status = "ok" /\ prompt.action \in Destructive) =>
        /\ prompt.original \in Range(prompt.files)
        /\ prompt.original \notin Range(prompt.acted)

\* C19: every destructive action carries an original path that is a member of
\* the group and is not among the paths to be changed, and a selection naming
\* every path of the group is rejected and prompted for again
C19_KeepsOneIntact ==
    /\ KeepsOriginal
    /\ (prompt.i > 0 /\ NamesEveryPath(prompt)) => prompt.status = "prompt"

\* C19, amended: ... a selection naming every path of the group is rejected,
\* and prompted for again unless it was the last of the MAX_RETRIES attempts
C19_KeepsOneIntactWhileRetrying ==
    /\ KeepsOriginal
    /\ NamesEveryPath(prompt) => prompt.status # "ok"
    /\ (prompt.i > 0 /\ prompt.i < MAX_RETRIES /\ NamesEveryPath(prompt)) =>
          prompt.status = "prompt"

\* after a line of input that was rejected, a destructive action on two of the
\* three paths of the group has been built
C19_Witness ==
    /\ prompt.i > 0
    /\ prompt.status = "ok"
    /\ prompt.action \in Destructive
    /\ Len(prompt.acted) = 2
    /\ Len(prompt.files) = 3

(***************************************************************************)
(* Properties of one call of add_duplicates_to_list                        *)
(***************************************************************************)
\* the group the call of recursively_get_duplicates of this step is about
Candidate == node_duplicates[Head(stack)] \cup {Head(stack)}

\* this step calls add_duplicates_to_list with a group that has no member tagged
\* ChildOfDuplicate and has a member tagged ParentOfDuplicate
SupersedingCall ==
    /\ pc = "extract" /\ stack # <<>>
    /\ dupl_data(dir_tree, node_duplicates, node_size, duplicates, min_size, Head(stack)).some
    /\ \A id \in Candidate : is_contained[id] # "ChildOfDuplicate"
    /\ \E id \in Candidate : is_contained[id] = "ParentOfDuplicate"

\* group g has a member strictly beneath node m
HasMemberBeneath(g, m) ==
    \E q \in g.duplicates : q # dir_tree[m].path /\ PathPrefix(dir_tree[m].path, q)

\* what the call leaves behind: the groups beneath the ParentOfDuplicate members
\* are gone and their members are ChildOfDuplicate, the new group is the last
\* of the list and no other group has a member beneath a member of it
Superseded ==
    /\ \A i \in 1..Len(duplicates) :
          (\E m \in Candidate : is_contained[m] = "ParentOfDuplicate"
                                  /\ HasMemberBeneath(duplicates[i], m)) =>
              /\ \A j \in 1..Len(duplicates') :
                    duplicates'[j].duplicates # duplicates[i].duplicates
              /\ \A x \in MemberNodes(duplicates[i]) : is_contained'[x] = "ChildOfDuplicate"
    /\ Len(duplicates') >= 1
    /\ duplicates'[Len(duplicates')] =
          DuplicateObject(node_size[Head(stack)],
                          {get_node_path(dir_tree, x) : x \in Candidate})
    /\ \A j \in 1..(Len(duplicates') - 1) :
          \A m \in Candidate : ~HasMemberBeneath(duplicates'[j], m)

\* C20: a call of add_duplicates_to_list with a group that has no member tagged
\* ChildOfDuplicate and a member tagged ParentOfDuplicate removes every group
\* that has a member beneath such a member, retags the members of the removed
\* groups ChildOfDuplicate and appends the new group, after which no group of
\* the list has a member beneath a member of the new group
C20_Supersedes == [][SupersedingCall => (pc' # "panic" /\ Superseded)]_vars

(***************************************************************************)
(* The DuplicateTable with and without worker threads.  `pool` holds       *)
(* the table, its counters, the ThreadPool (the queued jobs, the running   *)
(* jobs, the panic count), the channel of the checksums and the position   *)
(* of the driver.  The files are registered in the order add_directories   *)
(* meets them.                                                             *)
(***************************************************************************)
MaxThreads == 2

\* the inputs whose files are registered
PoolScenarios == { <<11>>, <<6, 7>>, <<1, 7>>, <<8, 8>> }

\* the File nodes of the tree in the order create_subtree registers them
FileNodes(tr) ==
    LET all == PreOrderSeq(tr, get_root_ids(tr))
        IsFile(n) == tr[n].type = "File"
    IN  SelectSeq(all, IsFile)

Job(part_checksum, entry) == [part |-> part_checksum, entry |-> entry]

\* a variant of queued_count that counts one job more than the queue holds
queued_count_one_more(p) == Len(p.queue) + 1

\* threadpool.active_count(), queued_count(), panic_count()
active_count(p) == Cardinality(p.active)
queued_count(p) == Len(p.queue)
panic_count(p) == p.panics

\* a variant of add_job that does not count the job
add_job_uncounted(p, part_checksum, entry) ==
    [p EXCEPT !.queue = Append(@, Job(part_checksum, entry)),
              !.scheduled = Append(@, entry)]

add_job(p, part_checksum, entry) ==
    [p EXCEPT !.job_counter = @ + 1,
              !.queue = Append(@, Job(part_checksum, entry)),
              !.scheduled = Append(@, entry)]

\* a variant of register_item that leaves the single entry it replaces without a job
register_item_forgetting_single(p, part_checksum, data) ==
    LET p1 == [p EXCEPT !.file_count = @ + 1] IN
    IF part_checksum \in DOMAIN p1.table
    THEN IF p1.table[part_checksum].tag = "Single"
         THEN add_job([p1 EXCEPT !.table[part_checksum] = new_multi_entry], part_checksum, data)
         ELSE add_job(p1, part_checksum, data)
    ELSE [p1 EXCEPT !.table = [q \in DOMAIN p1.table \cup {part_checksum} |->
                                 IF q = part_checksum THEN Single(data) ELSE p1.table[q]]]

\* register_item of a table with threads, after the check of the panic count
register_item_threaded(p, part_checksum, data) ==
    LET p1 == [p EXCEPT !.file_count = @ + 1] IN
    IF part_checksum \in DOMAIN p1.table
    THEN IF p1.table[part_checksum].tag = "Single"
         THEN LET se == p1.table[part_checksum].data
                  p2 == [p1 EXCEPT !.table[part_checksum] = new_multi_entry]
              IN  add_job(add_job(p2, part_checksum, se), part_checksum, data)
         ELSE add_job(p1, part_checksum, data)
    ELSE [p1 EXCEPT !.table = [q \in DOMAIN p1.table \cup {part_checksum} |->
                                 IF q = part_checksum THEN Single(data) ELSE p1.table[q]]]

\* the loop of finalise over checksum_rx.try_iter()
RECURSIVE merge_checksums(_)
merge_checksums(p) ==
    IF p.chan = <<>> THEN p
    ELSE LET m == Head(p.chan) IN
         merge_checksums([p EXCEPT !.job_counter = @ - 1,
                                   !.table = add_to_mult_entries(@, m.part, m.sum, m.entry),
                                   !.chan = Tail(@)])

\* a variant of the last check of finalise that never finds a checksum missing
counter_ignored(job_counter) == FALSE

\* if self.job_counter > 0 { panic!(...) }
missing_checksum(job_counter) == job_counter > 0

InitPool ==
    /\ fs \in PoolScenarios
    /\ roots = [i \in 1..Len(fs) |-> Obj(i, 1)]
    /\ min_size = 0 /\ pc = "idle" /\ added = Len(roots)
    /\ dir_tree = TreeOf(fs, roots, Len(roots))
    /\ table = <<>> /\ node_duplicates = <<>> /\ node_size = <<>>
    /\ is_contained = <<>> /\ order = <<>> /\ idx = 0 /\ stack = <<>> /\ duplicates = <<>>
    /\ prompt = <<>>
    /\ \E n \in 0..MaxThreads :
          pool = [num_threads |-> n, regs |-> FileNodes(dir_tree), next |-> 1,
                  pos |-> "register", table |-> <<>>, job_counter |-> 0, file_count |-> 0,
                  queue |-> <<>>, active |-> {}, chan |-> <<>>, panics |-> 0,
                  seen |-> 0, scheduled |-> <<>>, failed |-> FALSE, sent |-> {}]

\* self.multithreaded
multithreaded(p) == p.num_threads # 0

\* the entries register_item calls add_item for
ItemsAdded(tbl, part_checksum, data) ==
    IF part_checksum \notin DOMAIN tbl THEN <<>>
    ELSE IF tbl[part_checksum].tag = "Single" THEN <<tbl[part_checksum].data, data>>
    ELSE <<data>>

\* register_item of a table without threads: add_item computes the checksums
register_item_inline(p, part_checksum, data) ==
    [p EXCEPT !.file_count = @ + 1,
              !.table = register_item(fs, @, part_checksum, data),
              !.scheduled = @ \o ItemsAdded(p.table, part_checksum, data)]

\* create_subtree registers the next file; without threads get_checksum of an
\* entry that is added can fail, and the expect of add_item panics
register ==
    /\ pool.pos = "register"
    /\ pool.next <= Len(pool.regs)
    /\ LET data == pool.regs[pool.next]
           part_checksum == dir_tree[data].part_checksum
       IN  IF multithreaded(pool)
           THEN pool' = IF panic_count(pool) > 0
                        THEN [pool EXCEPT !.pos = "panicked"]
                        ELSE [register_item_threaded(pool, part_checksum, data)
                                  EXCEPT !.next = @ + 1]
           ELSE \/ pool' = [register_item_inline(pool, part_checksum, data)
                                EXCEPT !.next = @ + 1]
                \/ /\ ItemsAdded(pool.table, part_checksum, data) # <<>>
                   /\ pool' = [pool EXCEPT !.pos = "panicked", !.failed = TRUE,
                                           !.file_count = @ + 1]
    /\ UNCHANGED <<engine_vars, prompt>>

\* finalise of a table without threads does nothing
finalise_inline ==
    /\ pool.pos = "register" /\ pool.next > Len(pool.regs)
    /\ ~multithreaded(pool)
    /\ pool' = [pool EXCEPT !.pos = "returned"]
    /\ UNCHANGED <<engine_vars, prompt>>

\* finalise: threadpool.active_count() is read
finalise_active_count ==
    /\ multithreaded(pool)
    /\ \/ pool.pos = "register" /\ pool.next > Len(pool.regs)
       \/ pool.pos = "waiting"
    /\ pool' = [pool EXCEPT !.seen = active_count(pool), !.pos = "counting"]
    /\ UNCHANGED <<engine_vars, prompt>>

\* finalise: threadpool.queued_count() is read and added; the loop goes on while
\* the sum is positive
finalise_queued_count ==
    /\ pool.pos = "counting"
    /\ LET num_not_done == pool.seen + queued_count(pool) IN
          pool' = [pool EXCEPT !.pos = IF num_not_done > 0 THEN "waiting" ELSE "merging"]
    /\ UNCHANGED <<engine_vars, prompt>>

\* finalise after the loop: the check of the panic count, the checksums of the
\* channel are added to the table, the check of the job counter
finalise_merge ==
    /\ pool.pos = "merging"
    /\ pool' = IF panic_count(pool) > 0
               THEN [pool EXCEPT !.pos = "panicked"]
               ELSE LET p1 == merge_checksums(pool) IN
                    [p1 EXCEPT !.pos = IF missing_checksum(p1.job_counter)
                                       THEN "panicked" ELSE "returned"]
    /\ UNCHANGED <<engine_vars, prompt>>

\* a thread of the pool takes the next job of the queue
worker_start ==
    /\ pool.queue # <<>>
    /\ active_count(pool) < pool.num_threads
    /\ pool' = [pool EXCEPT !.queue = Tail(@), !.active = @ \cup {Head(pool.queue)}]
    /\ UNCHANGED <<engine_vars, prompt>>

\* the job: get_checksum succeeds and the checksum is sent, the last statement
\* of the job
worker_send ==
    /\ \E j \in pool.active \ pool.sent :
          pool' = [pool EXCEPT
                     !.sent = @ \cup {j},
                     !.chan = Append(@, [part |-> j.part,
                                         sum |-> get_checksum(fs, NodeObj(j.entry)),
                                         entry |-> j.entry])]
    /\ UNCHANGED <<engine_vars, prompt>>

\* the job has returned: the thread is no longer counted as active
worker_done ==
    /\ \E j \in pool.sent :
          pool' = [pool EXCEPT !.active = @ \ {j}, !.sent = @ \ {j}]
    /\ UNCHANGED <<engine_vars, prompt>>

\* the job: get_checksum fails (the file can no longer be read) and the job panics
worker_panic ==
    /\ \E j \in pool.active \ pool.sent :
          pool' = [pool EXCEPT !.active = @ \ {j}, !.panics = @ + 1, !.failed = TRUE]
    /\ UNCHANGED <<engine_vars, prompt>>

NextPool ==
    \/ register
    \/ finalise_inline
    \/ finalise_active_count
    \/ finalise_queued_count
    \/ finalise_merge
    \/ worker_start
    \/ worker_send
    \/ worker_done
    \/ worker_panic

SpecPool == InitPool /\ [][NextPool]_vars

\* the driver thread runs, the threads of the pool take the queued jobs, and
\* every job that was started sends its checksum or panics, and returns
SpecPoolFair ==
    /\ SpecPool
    /\ WF_vars(register) /\ WF_vars(finalise_inline)
    /\ WF_vars(finalise_active_count) /\ WF_vars(finalise_queued_count)
    /\ WF_vars(finalise_merge)
    /\ WF_vars(worker_start) /\ WF_vars(worker_send \/ worker_panic) /\ WF_vars(worker_done)

(***************************************************************************)
(* Properties of the DuplicateTable with worker threads                    *)
(***************************************************************************)
\* the registration of this call of register_item and its partial checksum
Registered == pool.regs[pool.next]
RegisteredPart == dir_tree[Registered].part_checksum

\* the entries add_job was called for in this step
NewJobs == SubSeq(pool'.scheduled, Len(pool.scheduled) + 1, Len(pool'.scheduled))

\* what register_item does to the slot of the partial checksum, the jobs it
\* creates and the slots it leaves alone
SlotUpdated ==
    /\ RegisteredPart \in DOMAIN pool'.table
    /\ RegisteredPart \notin DOMAIN pool.table =>
          /\ pool'.table[RegisteredPart] = Single(Registered)
          /\ NewJobs = <<>>
    /\ RegisteredPart \in DOMAIN pool.table =>
          IF pool.table[RegisteredPart].tag = "Single"
          THEN /\ pool'.table[RegisteredPart].tag = "Multiple"
               /\ NewJobs = <<pool.table[RegisteredPart].data, Registered>>
          ELSE /\ pool'.table[RegisteredPart].tag = "Multiple"
               /\ NewJobs = <<Registered>>
    /\ IF multithreaded(pool)
       THEN pool'.queue =
                pool.queue \o [i \in 1..Len(NewJobs) |-> Job(RegisteredPart, NewJobs[i])]
       ELSE \A i \in 1..Len(NewJobs) :
                LET me == pool'.table[RegisteredPart].hashes
                    c == get_checksum(fs, NodeObj(NewJobs[i]))
                IN  c \in DOMAIN me /\ NewJobs[i] \in Range(me[c])
    /\ DOMAIN pool'.table = DOMAIN pool.table \cup {RegisteredPart}
    /\ \A q \in DOMAIN pool.table \ {RegisteredPart} : pool'.table[q] = pool.table[q]

\* without threads a checksum could not be computed and add_item has panicked
HashFailed ==
    /\ ~multithreaded(pool)
    /\ RegisteredPart \in DOMAIN pool.table
    /\ pool'.pos = "panicked" /\ pool'.failed

\* register_item stops at its first line
StoppedEarly ==
    /\ pool'.pos = "panicked"
    /\ pool'.table = pool.table
    /\ pool'.scheduled = pool.scheduled
    /\ pool'.queue = pool.queue

Registrations == {pool.regs[i] : i \in 1..(pool.next - 1)}

\* the other registrations with the partial and the full checksum of r
SameChecksums(r) ==
    {o \in Registrations \ {r} :
        /\ dir_tree[o].part_checksum = dir_tree[r].part_checksum
        /\ get_checksum(fs, NodeObj(o)) = get_checksum(fs, NodeObj(r))}

\* C14: once finalise has returned, get_duplicates answers for every registered
\* entry, with exactly the other registered entries that have its partial and
\* its full checksum, whatever the number of threads and the order of the jobs
C14_Visible ==
    pool.pos = "returned" =>
        \A r \in Registrations :
            LET res == get_duplicates_of(pool.table, dir_tree[r].part_checksum, r)
            IN  res.ok /\ res.set = SameChecksums(r)

\* finalise has returned with two threads, the checksums of one list were
\* delivered against the order of the registrations, and a slot has two lists
C14_Witness ==
    /\ pool.pos = "returned"
    /\ pool.num_threads = 2
    /\ \E q \in DOMAIN pool.table :
          /\ pool.table[q].tag = "Multiple"
          /\ Cardinality(DOMAIN pool.table[q].hashes) = 2
          /\ \E c \in DOMAIN pool.table[q].hashes :
                /\ Len(pool.table[q].hashes[c]) = 2
                /\ pool.table[q].hashes[c][1] > pool.table[q].hashes[c][2]

\* the entries of the lists of the multiple entries
Merged(tbl) ==
    UNION {UNION {Range(tbl[q].hashes[c]) : c \in DOMAIN tbl[q].hashes} : q \in DOMAIN tbl}

\* every job has sent its checksum, which was received and is in the list of its slot
AllMerged ==
    /\ pool.queue = <<>> /\ pool.active \subseteq pool.sent /\ pool.chan = <<>>
    /\ pool.job_counter = 0
    /\ \A i \in 1..Len(pool.scheduled) :
          LET r == pool.scheduled[i]
              me == pool.table[dir_tree[r].part_checksum].hashes
              c == get_checksum(fs, NodeObj(r))
          IN  c \in DOMAIN me /\ r \in Range(me[c])
    /\ Cardinality(Merged(pool.table)) = Len(pool.scheduled)

\* C17: finalise returns only when the checksum of every job was received and
\* added to its multiple entry; when a job has panicked, or the number of the
\* checksums added differs from the number of the jobs, it panics
C17_Finalise ==
    /\ [](pool.pos = "returned" => (AllMerged /\ panic_count(pool) = 0))
    /\ [][(finalise_merge /\ (panic_count(pool) > 0
                              \/ Cardinality(Merged(pool.table)) + Len(pool.chan)
                                    # Len(pool.scheduled)))
            => (pool'.pos = "panicked")]_vars

\* finalise has returned after three jobs were run by two threads
C17_Witness ==
    /\ pool.pos = "returned"
    /\ pool.num_threads = 2
    /\ Len(pool.scheduled) = 3
    /\ Cardinality(Merged(pool.table)) = 3

\* the driver has left finalise, by returning or by panicking
Finalised == pool.pos \in {"returned", "panicked"}

\* C13: when every file could be read, the run emits, with any number of
\* threads, the groups that the run without threads emits, and this is one set of groups,
\* whatever the number of threads and the order in which the jobs start, end
\* and deliver
C13_SameGroups ==
    (Finalised /\ ~pool.failed) =>
        /\ pool.pos = "returned"
        /\ OutcomesFrom(fs, roots, min_size, pool.table) = Outcomes(fs, roots, min_size)
        /\ Cardinality(Outcomes(fs, roots, min_size)) = 1
        /\ \A o \in Outcomes(fs, roots, min_size) : ~o.panic

(***************************************************************************)
(* The containment tags                                                    *)
(***************************************************************************)
\* this step calls add_duplicates_to_list with a group that has a member
\* tagged ChildOfDuplicate
ContainedCall ==
    /\ pc = "extract" /\ stack # <<>>
    /\ dupl_data(dir_tree, node_duplicates, node_size, duplicates, min_size, Head(stack)).some
    /\ \E id \in Candidate : is_contained[id] = "ChildOfDuplicate"

\* the members of the group of the call and the nodes below them
CandidateSubtrees == Candidate \cup UNION {Descendants(dir_tree, m) : m \in Candidate}

\* the tags after a call that only tags the group and what lies below it
OnlyTagged ==
    is_contained' = [n \in DOMAIN is_contained |->
                        IF n \in CandidateSubtrees THEN "ChildOfDuplicate" ELSE is_contained[n]]

Transitions(t0, t1) == {<<t0[n], t1[n]>> : n \in {x \in DOMAIN t0 : t0[x] # t1[x]}}

\* the changes of tag the third loop of add_duplicates_to_list makes, write by
\* write: below the member, above the member, the member itself
RECURSIVE MemberWrites(_, _, _)
MemberWrites(tr, tags, ord) ==
    IF ord = <<>> THEN {}
    ELSE LET id == Head(ord)
             t1 == TagAll(tr, tags, tr[id].children)
             t2 == set_parents_of_duplicate(tr, t1, id)
             t3 == [t2 EXCEPT ![id] = "Duplicate"]
         IN  Transitions(tags, t1) \cup Transitions(t1, t2) \cup Transitions(t2, t3)
                \cup MemberWrites(tr, t3, Tail(ord))

\* the changes of tag one call of add_duplicates_to_list makes
CallWrites(tr, dups, sizes, es, ord) ==
    LET contained == \E id \in Range(ord) : es.tags[id] = "ChildOfDuplicate"
        es1 == RemoveParents(tr, dups, sizes, es, ord)
    IN  IF es1.panic THEN {}
        ELSE Transitions(es.tags, es1.tags) \cup
             (IF contained THEN Transitions(es1.tags, TagAll(tr, es1.tags, ord))
              ELSE MemberWrites(tr, es1.tags, ord))

\* the changes of tag the next step of the extraction can make
NextWrites ==
    IF /\ pc = "extract" /\ stack # <<>>
       /\ dupl_data(dir_tree, node_duplicates, node_size, duplicates, min_size, Head(stack)).some
    THEN UNION {CallWrites(dir_tree, node_duplicates, node_size,
                           [tags |-> is_contained, list |-> duplicates, panic |-> FALSE], ord) :
                   ord \in IterationOrders(dir_tree, is_contained, Candidate)}
    ELSE {}

\* no node is tagged before the extraction
UntaggedBeforeExtraction ==
    pc \in {"add_directories", "find_duplicates_1", "find_duplicates_2"} =>
        \A n \in DOMAIN is_contained : is_contained[n] = "No"

\* C22: a tag is No until the extraction, and the extraction changes a tag only
\* from No to ChildOfDuplicate, ParentOfDuplicate or Duplicate and from
\* Duplicate or ParentOfDuplicate to ChildOfDuplicate
C22_Transitions ==
    /\ UntaggedBeforeExtraction
    /\ NextWrites \subseteq
          { <<"No", "ChildOfDuplicate">>, <<"No", "ParentOfDuplicate">>, <<"No", "Duplicate">>,
            <<"Duplicate", "ChildOfDuplicate">>, <<"ParentOfDuplicate", "ChildOfDuplicate">> }

\* C22, amended: as above, and a member of a group that is added changes from
\* ParentOfDuplicate to Duplicate
C22_TransitionsWithParents ==
    /\ UntaggedBeforeExtraction
    /\ NextWrites \subseteq
          { <<"No", "ChildOfDuplicate">>, <<"No", "ParentOfDuplicate">>, <<"No", "Duplicate">>,
            <<"Duplicate", "ChildOfDuplicate">>, <<"ParentOfDuplicate", "ChildOfDuplicate">>,
            <<"ParentOfDuplicate", "Duplicate">> }

\* the next call replaces a Duplicate and a ParentOfDuplicate tag by
\* ChildOfDuplicate and tags a ParentOfDuplicate member Duplicate
C22_Witness ==
    { <<"Duplicate", "ChildOfDuplicate">>, <<"ParentOfDuplicate", "ChildOfDuplicate">>,
      <<"ParentOfDuplicate", "Duplicate">> } \subseteq NextWrites

(***************************************************************************)
(* The first loop of find_duplicates                                       *)
(***************************************************************************)
\* the first loop has visited node n
Pass1Done(n) ==
    \/ pc = "find_duplicates_1" /\ \E i \in 1..idx : order[i] = n
    \/ pc = "find_duplicates_2" /\ idx = 0

ChildrenOf(n) == Range(dir_tree[n].children)

\* the parents, other than the synthetic root, of the duplicates of c
ParentsOfDuplicates(c) ==
    {dir_tree[d].parent : d \in node_duplicates[c]} \ {root_id}

\* the nodes that are the parent of a duplicate of every child of n
CommonParents(n) ==
    {m \in Nodes : \A c \in ChildrenOf(n) : m \in ParentsOfDuplicates(c)}

CandidateSet(n) ==
    IF \/ ChildrenOf(n) = {}
       \/ \E c \in ChildrenOf(n) : dir_tree[c].type \in {"Symlink", "Inaccessible"}
       \/ \E c \in ChildrenOf(n) : node_duplicates[c] = {}
    THEN {}
    ELSE CommonParents(n) \ {n}

\* every node comes after its children in the order of the loops
PostOrder ==
    \A i \in 1..Len(order) : \A c \in ChildrenOf(order[i]) : \E j \in 1..(i - 1) : order[j] = c

\* C23: the first loop of find_duplicates visits the children of a node before
\* the node, and gives a Dir the empty set when it has no child, a Symlink or
\* Inaccessible child, or a child without duplicates, and otherwise the parents
\* (other than the synthetic root) common to the duplicates of all its
\* children, without the Dir itself
C23_Candidates ==
    /\ pc \in {"find_duplicates_1", "find_duplicates_2"} => PostOrder
    /\ \A n \in Nodes :
          (dir_tree[n].type = "Dir" /\ Pass1Done(n)) => node_duplicates[n] = CandidateSet(n)

\* the first loop has ended; a Dir with two children has candidates and is
\* itself a parent common to the duplicates of its children, another Dir has
\* no candidates because of a child
C23_Witness ==
    /\ pc = "find_duplicates_2" /\ idx = 0
    /\ \E n \in Nodes :
          /\ dir_tree[n].type = "Dir" /\ Cardinality(ChildrenOf(n)) >= 2
          /\ node_duplicates[n] # {}
          /\ n \in CommonParents(n)
    /\ \E n \in Nodes :
          /\ dir_tree[n].type = "Dir" /\ ChildrenOf(n) # {}
          /\ node_duplicates[n] = {}

(***************************************************************************)
(* The panics of the extraction                                            *)
(***************************************************************************)
\* C24: a call of recursively_get_duplicates whose node has a size does not
\* panic: every group that remove_duplicate_from_list rebuilds from a node
\* tagged Duplicate is found in the list of duplicates
C24_ObjectFound ==
    [][(/\ pc = "extract" /\ stack # <<>>
        /\ ~dupl_data(dir_tree, node_duplicates, node_size, duplicates, min_size,
                      Head(stack)).panic)
          => (pc' # "panic")]_vars

\* C25: once find_duplicates has ended, a Dir with duplicates has a size, and
\* the expect of recursively_get_duplicates on the size does not fail
C25_SizeKnown ==
    /\ AfterEquivalence =>
          \A n \in Nodes :
              (dir_tree[n].type = "Dir" /\ node_duplicates[n] # {}) => node_size[n] # None
    /\ (pc = "extract" /\ stack # <<>>) =>
          ~dupl_data(dir_tree, node_duplicates, node_size, duplicates, min_size,
                     Head(stack)).panic

\* the extraction is at a Dir that has duplicates, of which find_duplicates has
\* left some Dir without duplicates and without a size
C25_Witness ==
    /\ pc = "extract" /\ stack # <<>>
    /\ dir_tree[Head(stack)].type = "Dir"
    /\ node_duplicates[Head(stack)] # {}
    /\ node_size[Head(stack)] # None
    /\ \E n \in Nodes : dir_tree[n].type = "Dir" /\ node_size[n] = None

\* C26: between the calls of add_duplicates_to_list, the nodes tagged Duplicate
\* are the members of the groups of the list
C26_DuplicateIffListed ==
    pc \in {"extract", "done"} =>
        \A n \in Nodes : (is_contained[n] = "Duplicate") <=> InGroup(n)

\* a group has been removed from the list: one of its members is tagged
\* ChildOfDuplicate and neither it nor a node above it is in a group, while
\* other nodes are tagged Duplicate
C26_Witness ==
    /\ pc = "extract"
    /\ \E n \in Nodes : is_contained[n] = "Duplicate"
    /\ \E n \in Nodes :
          /\ is_contained[n] = "ChildOfDuplicate"
          /\ node_duplicates[n] # {}
          /\ ~InGroup(n)
          /\ \A a \in StrictAncestors(n) : ~InGroup(a)

\* C27: between the steps of the extraction, every node above a node tagged
\* ParentOfDuplicate, the synthetic root apart, is tagged ParentOfDuplicate
C27_ParentsAbove ==
    \A n \in Nodes :
        is_contained[n] = "ParentOfDuplicate" =>
            \A a \in StrictAncestors(n) : is_contained[a] = "ParentOfDuplicate"

\* a node tagged ParentOfDuplicate lies two levels below a node tagged likewise
C27_Witness ==
    \E n \in Nodes :
        /\ is_contained[n] = "ParentOfDuplicate"
        /\ Cardinality(StrictAncestors(n)) >= 2

\* C28: between the steps of the extraction, every node below a node tagged
\* ChildOfDuplicate is tagged ChildOfDuplicate
C28_ChildrenBelow ==
    \A n \in Nodes :
        is_contained[n] = "ChildOfDuplicate" =>
            \A d \in Descendants(dir_tree, n) : is_contained[d] = "ChildOfDuplicate"

\* a node tagged ChildOfDuplicate has nodes two levels below it
C28_Witness ==
    \E n \in Nodes :
        /\ is_contained[n] = "ChildOfDuplicate"
        /\ \E d \in Descendants(dir_tree, n) : dir_tree[d].parent # n

(***************************************************************************)
(* Members of a group that lie above one another                           *)
(***************************************************************************)
\* path p lies strictly above path q
Above(p, q) == p # q /\ PathPrefix(p, q)

\* C29: no group of the list has a member above another member, and once
\* find_duplicates has ended no Dir has a node below it or above it among its
\* duplicates
C29_NoNestedMembers ==
    /\ \A i \in 1..Len(duplicates) :
          \A p \in duplicates[i].duplicates, q \in duplicates[i].duplicates : ~Above(p, q)
    /\ AfterEquivalence =>
          \A n \in Nodes : dir_tree[n].type = "Dir" =>
              \A d \in node_duplicates[n] :
                  /\ ~Above(get_node_path(dir_tree, n), get_node_path(dir_tree, d))
                  /\ ~Above(get_node_path(dir_tree, d), get_node_path(dir_tree, n))

\* find_duplicates has ended and a Dir with duplicates lies in a Dir that holds
\* a duplicate of each child of it; the list has a group
C29_Witness ==
    /\ AfterEquivalence /\ duplicates # <<>>
    /\ \E n \in Nodes, a \in Nodes :
          /\ dir_tree[n].type = "Dir" /\ node_duplicates[n] # {}
          /\ a \in StrictAncestors(n)
          /\ \A c \in ChildrenOf(n) : \E d \in node_duplicates[c] : dir_tree[d].parent = a

(***************************************************************************)
(* The checksums that are received between the registrations               *)
(***************************************************************************)
\* the message m of the channel is in the list of its checksum in table tbl
MergedIn(tbl, m) ==
    /\ m.part \in DOMAIN tbl
    /\ m.sum \in DOMAIN tbl[m.part].hashes
    /\ m.entry \in Range(tbl[m.part].hashes[m.sum])

\* C30: a checksum that a job has sent before a call of register_item begins is
\* in the list of its multiple entry when the call returns
C30_MergedBetweenRegistrations ==
    [][(register /\ pool'.pos = "register")
          => \A i \in 1..Len(pool.chan) : MergedIn(pool'.table, pool.chan[i])]_vars

(***************************************************************************)
(* The entries of a multiple entry and the counters of the table           *)
(***************************************************************************)
\* the entries in the lists of the slot q
Listed(q) == UNION {Range(pool.table[q].hashes[c]) : c \in DOMAIN pool.table[q].hashes}

\* the entries with partial checksum q that add_job or add_item was called for
\* and that are in no list yet
Pending(q) ==
    {r \in Range(pool.scheduled) : dir_tree[r].part_checksum = q} \ Listed(q)

MultipleSlots == {q \in DOMAIN pool.table : pool.table[q].tag = "Multiple"}

\* C31: whenever the driver is not inside register_item, the lists of a
\* multiple entry hold at least two entries, with and without threads
C31_TwoListed ==
    pool.pos # "panicked" =>
        \A q \in MultipleSlots : Cardinality(Listed(q)) >= 2

\* C31, amended: the lists of a multiple entry hold at least two entries without
\* threads and, with threads, once finalise has returned; before that they
\* hold at least two together with the entries whose jobs are not merged yet
C31_TwoListedOrPending ==
    pool.pos # "panicked" =>
        \A q \in MultipleSlots :
            /\ Cardinality(Listed(q)) + Cardinality(Pending(q)) >= 2
            /\ (~multithreaded(pool) \/ pool.pos = "returned") => Cardinality(Listed(q)) >= 2

\* with threads, finalise has returned and a multiple entry has three entries
\* in two lists, none of them pending
C31_Witness ==
    /\ multithreaded(pool) /\ pool.pos = "returned"
    /\ \E q \in MultipleSlots :
          /\ Cardinality(Listed(q)) = 3 /\ Pending(q) = {}
          /\ Cardinality(DOMAIN pool.table[q].hashes) = 2

(***************************************************************************)
(* Ingest (create_subtree)                                                 *)
(***************************************************************************)
\* the nodes made for filesystem object o during the walk of input root ri
NodesFor(ri, o) ==
    {n \in DOMAIN dir_tree \ {root_id} : NodeRoot(n) = ri /\ dir_tree[n].path = o}

\* how many times node n is registered in the table under partial checksum q
TimesUnder(q, n) ==
    IF q \notin DOMAIN table THEN 0
    ELSE IF table[q].tag = "Single" THEN (IF table[q].data = n THEN 1 ELSE 0)
    ELSE LET h == table[q].hashes
             cnt[S \in SUBSET DOMAIN h] ==
                 IF S = {} THEN 0
                 ELSE LET c == CHOOSE x \in S : TRUE
                      IN  Cardinality({k \in 1..Len(h[c]) : h[c][k] = n}) + cnt[S \ {c}]
         IN  cnt[DOMAIN h]

TimesRegistered(n) ==
    LET cnt[S \in SUBSET DOMAIN table] ==
            IF S = {} THEN 0
            ELSE LET q == CHOOSE x \in S : TRUE IN TimesUnder(q, n) + cnt[S \ {q}]
    IN  cnt[DOMAIN table]

\* add_directories stopped with a panic before every root was walked
IngestAborted == pc = "panic" /\ added < Len(roots)

\* the nodes of the roots walked so far are what the claim says they are
NodesAsVisited ==
    \A ri \in 1..added : \A o \in FsObjs(fs) :
        IF ~Visited(fs, roots[ri], o) THEN NodesFor(ri, o) = {}
        ELSE /\ NodesFor(ri, o) = {NodeId(ri, o)}
             /\ LET n == NodeId(ri, o)
                    k == FsKind(fs, o)
                IN  /\ k = "Dir" =>
                          /\ dir_tree[n].type = "Dir"
                          /\ Range(dir_tree[n].children) =
                                 {NodeId(ri, c) : c \in Range(FsChildren(fs, o))}
                    /\ k = "NoAccess" =>
                          dir_tree[n].type = "Inaccessible" /\ dir_tree[n].children = <<>>
                    /\ k = "Symlink" =>
                          dir_tree[n].type = "Symlink" /\ dir_tree[n].children = <<>>
                    /\ dir_tree[n].type = "File" <=> k = "File"
                    /\ TimesRegistered(n) = (IF k = "File" THEN 1 ELSE 0)
                    /\ k = "File" => TimesUnder(blake2_partial(fs, o), n) = 1

\* C32: ingest never aborts on a path, makes exactly one node of the stated
\* kind for every visited path, does not go below unreadable directories and
\* symlinks, and registers every File node exactly once under its partial digest
C32_Ingest ==
    /\ ~IngestAborted
    /\ pc \in {"add_directories", "find_duplicates_1"} => NodesAsVisited

(***************************************************************************)
(* Empty directories                                                       *)
(***************************************************************************)
EmptyDir(n) == dir_tree[n].type = "Dir" /\ dir_tree[n].children = <<>>

\* n is an empty directory or has one among its descendants
HoldsEmptyDir(n) == \E d \in Descendants(dir_tree, n) \cup {n} : EmptyDir(d)

\* C33: a Dir without children has no duplicates, and a Dir with an empty
\* directory among its descendants has no duplicates and is in no group
C33_EmptyDirs ==
    \A n \in Nodes :
        /\ EmptyDir(n) => node_duplicates[n] = {}
        /\ (dir_tree[n].type = "Dir" /\ HoldsEmptyDir(n)) =>
               node_duplicates[n] = {} /\ ~InGroup(n)

\* the run has ended; two directories made from one template hold a file and
\* an empty directory each, and the two files are in a group
C33_Witness ==
    /\ pc = "done"
    /\ \E n \in Nodes, m \in Nodes :
          LET p == get_node_path(dir_tree, n)
              q == get_node_path(dir_tree, m)
          IN  /\ ObjTop(p) # ObjTop(q) /\ ObjIdx(p) = ObjIdx(q)
              /\ fs[ObjTop(p)] = fs[ObjTop(q)]
              /\ dir_tree[n].type = "Dir" /\ dir_tree[m].type = "Dir"
              /\ \E e \in ChildrenOf(n) : EmptyDir(e)
              /\ \E c \in ChildrenOf(n), d \in ChildrenOf(m) :
                    d \in node_duplicates[c] /\ InGroup(c) /\ InGroup(d)

(***************************************************************************)
(* The minimum size                                                        *)
(***************************************************************************)
\* the duplicate sets find_duplicates computes for the roots rs of filesystem sc
DuplicateSets(sc, rs) ==
    LET tr == TreeOf(sc, rs, Len(rs))
        ord == PostOrderSeq(tr, get_root_ids(tr))
        tbl == RunIngest(sc, rs, tr, <<>>, 1)
        p1 == RunPass1(tr, tbl, [panic |-> FALSE, dups |-> [n \in DOMAIN tr |-> {}]], ord)
        p2 == RunPass2(tr, [dups |-> p1.dups,
                            sizes |-> [n \in DOMAIN tr |->
                                         IF tr[n].type = "File" THEN FileLen(sc, n) ELSE None]],
                       ord)
    IN  p2.dups

\* the groups, with their sizes, that the extraction can return without a panic
RECURSIVE ExtractLists(_, _, _, _, _, _)
ExtractLists(tr, dups, sizes, min, es, stk) ==
    IF es.panic THEN {}
    ELSE IF stk = <<>> THEN {Range(es.list)}
    ELSE UNION {ExtractLists(tr, dups, sizes, min, r.es, r.stack) :
                    r \in VisitResults(tr, dups, sizes, min, es, stk)}

\* the groups the run would have returned with minimum_size = min
EmittedWith(min) ==
    ExtractLists(dir_tree, node_duplicates, node_size, min,
                 [tags |-> [n \in DOMAIN dir_tree |-> "No"], list |-> <<>>, panic |-> FALSE],
                 get_root_ids(dir_tree))

LargerThan(gs, m) == {g \in gs : g.size > m}

\* C34: the duplicate sets do not depend on minimum_size, and the groups
\* returned with minimum_size = m are the groups returned with minimum_size = 0
\* whose size is greater than m
C34_MinimumSizeFilters ==
    pc = "done" =>
        /\ node_duplicates = DuplicateSets(fs, roots)
        /\ Range(duplicates) \in {LargerThan(gs, min_size) : gs \in EmittedWith(0)}

(***************************************************************************)
(* The end of finalise                                                     *)
(***************************************************************************)
\* every registration is made and finalise is called
FinaliseCalled == pool.pos = "register" /\ pool.next > Len(pool.regs)

FinaliseEnded == pool.pos \in {"returned", "panicked"}

\* the jobs that have sent their checksum
Completed == Len(pool.scheduled) - Len(pool.queue) - Cardinality(pool.active \ pool.sent)
                 - pool.panics

\* C35: when every job that is started sends or panics and returns, finalise
\* returns or panics, and at the end of its wait loop the checksum of every
\* job that has completed is in the channel
C35_FinaliseEnds ==
    /\ FinaliseCalled ~> FinaliseEnded
    /\ [](pool.pos = "merging" => Len(pool.chan) = Completed)

\* finalise has returned with threads, three jobs were created and none panicked
C35_Witness ==
    /\ multithreaded(pool) /\ pool.pos = "returned"
    /\ Len(pool.scheduled) = 3 /\ pool.panics = 0

(***************************************************************************)
(* Actions that need a selection of files                                  *)
(***************************************************************************)
\* Open, Open Folder, Delete, ReplaceWithHardlink, ReplaceWithSoftlink
FileActions == {"O", "F", "D", "H", "S"}

\* the last line of input asks for an action on files and selects none of the group
SelectsNoFile(p) ==
    /\ p.input.letter \in FileActions
    /\ acted_paths(p.files, p.input.nums) = <<>>

\* C36: a line of input that asks for an action on files and selects no file
\* is rejected, and get_from_input returns no such action with an empty list
\* of paths
C36_SelectionNeeded ==
    /\ SelectsNoFile(prompt) => prompt.status # "ok"
    /\ (prompt.status = "ok" /\ prompt.action \in FileActions) => prompt.acted # <<>>

(***************************************************************************)
(* delete_dir                                                              *)
(***************************************************************************)
\* the event of path f is in the log at position i
At(i, f, event) == prompt.log[i] = <<f, event>>

LastEvent(event) ==
    prompt.log # <<>> /\ prompt.log[Len(prompt.log)][2] = event

LastPath == prompt.log[Len(prompt.log)][1]

\* C37: a path is removed only after the user has confirmed and verify_copy
\* has then returned true; when the user declines, delete_dir returns Ok and
\* the path is not removed; when the verification fails, delete_dir returns an
\* error and the path is not removed
C37_DeleteAfterChecks ==
    /\ \A f \in prompt.removed :
          \E i \in DOMAIN prompt.log, j \in DOMAIN prompt.log, l \in DOMAIN prompt.log :
              /\ i < j /\ j < l
              /\ At(i, f, "confirmed") /\ At(j, f, "verified")
              /\ At(l, f, "removed") \/ At(l, f, "remove_failed")
    /\ LastEvent("declined") =>
          prompt.exec \in {"confirm", "ok"} /\ LastPath \notin prompt.removed
    /\ LastEvent("unverified") =>
          prompt.exec = "err" /\ LastPath \notin prompt.removed

\* the user has declined the deletion of the first path and confirmed the
\* second, which was verified and removed; execute has returned Ok
C37_Witness ==
    /\ prompt.exec = "ok"
    /\ Len(prompt.acted) = 2
    /\ prompt.removed = {prompt.acted[2]}
    /\ prompt.log[1] = <<prompt.acted[1], "declined">>

(***************************************************************************)
(* The command line: --jobs                                                *)
(***************************************************************************)
\* usize has UsizeBits bits
UsizeBits == 8
UsizeMax == 2 ^ UsizeBits - 1

\* args.jobs: None when --jobs is not given
JobsArgs == {None} \cup 0..UsizeMax

\* a - b on usize: the value when the build wraps, and whether it overflows
wrapping_sub(a, b) == (a - b) % (2 ^ UsizeBits)
sub_overflows(a, b) == a < b

\* std::cmp::max
max(a, b) == IF a >= b THEN a ELSE b

InitMain ==
    /\ EngineIdle
    /\ prompt = <<>>
    /\ \E jobs \in JobsArgs : pool = [jobs |-> jobs, pos |-> "args", num_threads |-> None]

\* main: if let Some(num) = args.jobs { config.set_num_threads(max(num - 1, 0)) }.
\* num - 1 overflows for num = 0: a build with overflow checks panics, a build
\* without them wraps
set_num_threads ==
    /\ pool.pos = "args"
    /\ IF pool.jobs = None
       THEN pool' = [pool EXCEPT !.pos = "configured"]
       ELSE \/ pool' = [pool EXCEPT !.pos = "configured",
                                    !.num_threads = max(wrapping_sub(pool.jobs, 1), 0)]
            \/ /\ sub_overflows(pool.jobs, 1)
               /\ pool' = [pool EXCEPT !.pos = "panicked"]
    /\ UNCHANGED <<engine_vars, prompt>>

\* Config::get_num_threads: self.num_threads.unwrap_or(0)
get_num_threads(p) == IF p.num_threads = None THEN 0 ELSE p.num_threads

NextMain == set_num_threads

SpecMain == InitMain /\ [][NextMain]_vars

\* C38: for every --jobs value n the configured number of threads is
\* max(n - 1, 0), computed without an overflow; n = 0 and n = 1 give 0 threads
C38_Threads ==
    /\ pool.pos # "panicked"
    /\ (pool.pos = "configured" /\ pool.jobs # None) =>
           get_num_threads(pool) = (IF pool.jobs >= 1 THEN pool.jobs - 1 ELSE 0)

(***************************************************************************)
(* The job counter                                                         *)
(***************************************************************************)
\* the entries add_job was called for, and the entries received and merged
JobsScheduled == IF multithreaded(pool) THEN pool.scheduled ELSE <<>>
ResultsMerged == IF multithreaded(pool) THEN Merged(pool.table) ELSE {}

\* the entries whose checksum was sent and is not merged yet
InChannel == {pool.chan[i].entry : i \in 1..Len(pool.chan)}

\* C39: no file gets two jobs and no job delivers two checksums; job_counter is
\* the number of the jobs minus the number of the checksums merged, it lies
\* between 0 and file_count, it stays 0 without threads and it is 0 when
\* finalise has returned
C39_JobCounter ==
    /\ Cardinality(Range(JobsScheduled)) = Len(JobsScheduled)
    /\ Range(JobsScheduled) \subseteq Registrations
    /\ Cardinality(InChannel) = Len(pool.chan)
    /\ InChannel \cap ResultsMerged = {}
    /\ InChannel \cup ResultsMerged \subseteq Range(pool.scheduled)
    /\ pool.job_counter = Len(JobsScheduled) - Cardinality(ResultsMerged)
    /\ 0 <= pool.job_counter /\ pool.job_counter <= pool.file_count
    /\ ~multithreaded(pool) => pool.job_counter = 0
    /\ pool.pos = "returned" => pool.job_counter = 0

\* finalise has returned with threads: four files were registered, three of
\* them got a job and the three checksums are merged
C39_Witness ==
    /\ multithreaded(pool) /\ pool.pos = "returned"
    /\ pool.file_count = 4 /\ Len(JobsScheduled) = 3
    /\ Cardinality(ResultsMerged) = 3 /\ pool.chan = <<>>

====
